---- MODULE Spec2Model ----
(***************************************************************************)
(* Model of the Optilm-Air collector: the orchestrator (src/main.py), the  *)
(* two upstream clients (src/data_collectors), the persistence layer       *)
(* (src/storage/data_storage.py) and the readers of data/latest_data.json. *)
(***************************************************************************)
EXTENDS Integers, Sequences, FiniteSets, TLC

(***************************************************************************)
(* Python values.  Every value carries its type tag in field t, so that    *)
(* values of different Python types can be compared.  A dict is the        *)
(* insertion-ordered sequence of its <<key, value>> pairs.                 *)
(***************************************************************************)
PyNone == [t |-> "none"]
PyBool(b) == [t |-> "bool", v |-> b]
PyNum(n) == [t |-> "num", v |-> n]
PyStr(s) == [t |-> "str", v |-> s]
\* the str produced by datetime.isoformat() for the instant n
PyTime(n) == [t |-> "isotime", v |-> n]
PyList(s) == [t |-> "list", v |-> s]
PyDict(pairs) == [t |-> "dict", v |-> pairs]
\* an exception object, as stored in a result list by gather(return_exceptions=True)
PyExc(msg) == [t |-> "exc", v |-> msg]

IsNone(x) == x.t = "none"
IsDict(x) == x.t = "dict"
IsException(x) == x.t = "exc"

\* bool(x)
Truthy(x) ==
  CASE x.t = "none" -> FALSE
    [] x.t = "bool" -> x.v
    [] x.t = "num" -> x.v # 0
    [] x.t = "str" -> x.v # ""
    [] x.t = "list" -> Len(x.v) > 0
    [] x.t = "dict" -> Len(x.v) > 0
    [] OTHER -> TRUE

\* k in d
HasKey(d, k) == IsDict(d) /\ \E i \in 1..Len(d.v) : d.v[i][1] = k
\* d[k], for a key that is present
Get(d, k) == d.v[CHOOSE i \in 1..Len(d.v) : d.v[i][1] = k][2]
\* d.get(k, dflt)
GetOr(d, k, dflt) == IF HasKey(d, k) THEN Get(d, k) ELSE dflt
\* d[k] = val
Put(d, k, val) ==
  IF HasKey(d, k)
  THEN PyDict([i \in 1..Len(d.v) |-> IF d.v[i][1] = k THEN <<k, val>> ELSE d.v[i]])
  ELSE PyDict(Append(d.v, <<k, val>>))

(***************************************************************************)
(* json.dumps / json.loads.  The text of a file is the sequence of JSON    *)
(* tokens; whitespace (indent=2) carries no information and is left out.   *)
(***************************************************************************)
Tok(kind, val) == [k |-> kind, v |-> val]
LBrace == Tok("p", "{")
RBrace == Tok("p", "}")
LBrack == Tok("p", "[")
RBrack == Tok("p", "]")
Colon == Tok("p", ":")
Comma == Tok("p", ",")

\* mutation: the file receives str(x), the repr of the value, which is not JSON
DumpsRepr(x) == <<Tok("r", x.t)>>

RECURSIVE Dumps(_)
RECURSIVE DumpsItems(_, _)
RECURSIVE DumpsMembers(_, _)
\* json.dumps(x, indent=2, ensure_ascii=False)
Dumps(x) ==
  CASE x.t = "none" -> <<Tok("w", "null")>>
    [] x.t = "bool" -> <<Tok("w", IF x.v THEN "true" ELSE "false")>>
    [] x.t = "num" -> <<Tok("n", x.v)>>
    [] x.t = "str" -> <<Tok("s", x.v)>>
    [] x.t = "isotime" -> <<Tok("d", x.v)>>
    [] x.t = "list" -> <<LBrack>> \o DumpsItems(x.v, 1) \o <<RBrack>>
    [] x.t = "dict" -> <<LBrace>> \o DumpsMembers(x.v, 1) \o <<RBrace>>
DumpsItems(s, i) ==
  IF i > Len(s) THEN <<>>
  ELSE Dumps(s[i]) \o (IF i < Len(s) THEN <<Comma>> ELSE <<>>) \o DumpsItems(s, i + 1)
DumpsMembers(s, i) ==
  IF i > Len(s) THEN <<>>
  ELSE <<Tok("s", s[i][1]), Colon>> \o Dumps(s[i][2])
       \o (IF i < Len(s) THEN <<Comma>> ELSE <<>>) \o DumpsMembers(s, i + 1)

\* result of a parse step: ok, the value read, and the position after it
ParseFail == [ok |-> FALSE, val |-> PyNone, next |-> 0]
ParseOk(val, next) == [ok |-> TRUE, val |-> val, next |-> next]
TokAt(toks, i, tok) == i <= Len(toks) /\ toks[i] = tok

RECURSIVE ParseValue(_, _)
RECURSIVE ParseItems(_, _, _)
RECURSIVE ParseMembers(_, _, _)
ParseValue(toks, i) ==
  IF i > Len(toks) THEN ParseFail
  ELSE LET tk == toks[i] IN
    CASE tk.k = "w" ->
           IF tk.v = "null" THEN ParseOk(PyNone, i + 1)
           ELSE ParseOk(PyBool(tk.v = "true"), i + 1)
      [] tk.k = "n" -> ParseOk(PyNum(tk.v), i + 1)
      [] tk.k = "s" -> ParseOk(PyStr(tk.v), i + 1)
      [] tk.k = "d" -> ParseOk(PyTime(tk.v), i + 1)
      [] tk = LBrack ->
           IF TokAt(toks, i + 1, RBrack) THEN ParseOk(PyList(<<>>), i + 2)
           ELSE ParseItems(toks, i + 1, <<>>)
      [] tk = LBrace ->
           IF TokAt(toks, i + 1, RBrace) THEN ParseOk(PyDict(<<>>), i + 2)
           ELSE ParseMembers(toks, i + 1, <<>>)
      [] OTHER -> ParseFail
ParseItems(toks, i, acc) ==
  LET r == ParseValue(toks, i) IN
    IF ~r.ok THEN ParseFail
    ELSE IF TokAt(toks, r.next, Comma) THEN ParseItems(toks, r.next + 1, Append(acc, r.val))
    ELSE IF TokAt(toks, r.next, RBrack) THEN ParseOk(PyList(Append(acc, r.val)), r.next + 1)
    ELSE ParseFail
ParseMembers(toks, i, acc) ==
  IF ~(i + 1 <= Len(toks) /\ toks[i].k = "s" /\ toks[i + 1] = Colon) THEN ParseFail
  ELSE LET r == ParseValue(toks, i + 2) IN
    IF ~r.ok THEN ParseFail
    ELSE IF TokAt(toks, r.next, Comma)
         THEN ParseMembers(toks, r.next + 1, Append(acc, <<toks[i].v, r.val>>))
    ELSE IF TokAt(toks, r.next, RBrace)
         THEN ParseOk(PyDict(Append(acc, <<toks[i].v, r.val>>)), r.next + 1)
    ELSE ParseFail

\* json.loads(text): [ok |-> FALSE] stands for the JSONDecodeError it raises
Loads(toks) ==
  LET r == ParseValue(toks, 1) IN
    IF r.ok /\ r.next = Len(toks) + 1 THEN [ok |-> TRUE, val |-> r.val]
    ELSE [ok |-> FALSE, val |-> PyNone]

(***************************************************************************)
(* Subscripting.  A path is a sequence of steps K(key) / I(index); Lookup  *)
(* follows data[step1][step2]... and reports the exception the first       *)
(* failing subscript raises.  err is str(e) for a KeyError / IndexError    *)
(* (the quotes Python puts around the key are left out) and "TypeError"    *)
(* stands for the text of any TypeError.                                   *)
(***************************************************************************)
K(k) == [key |-> k]
I(n) == [idx |-> n]
IsKeyStep(s) == "key" \in DOMAIN s

RECURSIVE Lookup(_, _, _)
Lookup(x, path, i) ==
  IF i > Len(path) THEN [ok |-> TRUE, val |-> x, err |-> ""]
  ELSE LET s == path[i] IN
    IF IsKeyStep(s)
    THEN IF ~IsDict(x) THEN [ok |-> FALSE, val |-> PyNone, err |-> "TypeError"]
         ELSE IF ~HasKey(x, s.key) THEN [ok |-> FALSE, val |-> PyNone, err |-> s.key]
         ELSE Lookup(Get(x, s.key), path, i + 1)
    ELSE IF x.t # "list" THEN [ok |-> FALSE, val |-> PyNone, err |-> "TypeError"]
         ELSE IF s.idx + 1 > Len(x.v)
              THEN [ok |-> FALSE, val |-> PyNone, err |-> "list index out of range"]
         ELSE Lookup(x.v[s.idx + 1], path, i + 1)

\* data[k1][k2]..., for a path known to succeed
At(x, path) == Lookup(x, path, 1).val

\* the exception raised by evaluating the subscripts of paths in order:
\* "" when none raises, else str(e) of the first that does
RECURSIVE FirstError(_, _, _)
FirstError(x, paths, i) ==
  IF i > Len(paths) THEN ""
  ELSE LET r == Lookup(x, paths[i], 1) IN
    IF r.ok THEN FirstError(x, paths, i + 1) ELSE r.err

\* s[:n]
Take(s, n) == SubSeq(s, 1, IF Len(s) < n THEN Len(s) ELSE n)

(***************************************************************************)
(* Outcome of one HTTP exchange, as seen inside `async with session...`:   *)
(* a response (status, JSON body) or an exception (timeout, transport).    *)
(***************************************************************************)
Response(status, body) == [kind |-> "resp", status |-> status, body |-> body]
Timeout == [kind |-> "timeout", status |-> 0, body |-> PyNone]
NetError == [kind |-> "neterr", status |-> 0, body |-> PyNone]

(***************************************************************************)
(* Air quality client                                                      *)
(***************************************************************************)
\* for index in raw_data["indexes"]: iteration and .get succeed on a list of dicts
IterableOfDicts(x) ==
  \/ x.t = "list" /\ \A i \in 1..Len(x.v) : IsDict(x.v[i])
  \/ x.t \in {"dict", "str"} /\ Len(x.v) = 0

index_data(index) ==
  PyDict(<< <<"code", GetOr(index, "code", PyNone)>>,
            <<"display_name", GetOr(index, "displayName", PyNone)>>,
            <<"aqi", GetOr(index, "aqi", PyNone)>>,
            <<"category", GetOr(index, "category", PyNone)>>,
            <<"color", GetOr(index, "color", PyDict(<<>>))>> >>)

pollutant_data(pollutant) ==
  PyDict(<< <<"code", GetOr(pollutant, "code", PyNone)>>,
            <<"display_name", GetOr(pollutant, "displayName", PyNone)>>,
            <<"full_name", GetOr(pollutant, "fullName", PyNone)>>,
            <<"concentration", GetOr(pollutant, "concentration", PyDict(<<>>))>>,
            <<"additional_info", GetOr(pollutant, "additionalInfo", PyDict(<<>>))>> >>)

\* the lists the two `for x in src: out.append(...)` loops build
indexes(src) ==
  PyList(IF src.t = "list" THEN [i \in 1..Len(src.v) |-> index_data(src.v[i])] ELSE <<>>)

pollutants(src) ==
  PyList(IF src.t = "list" THEN [i \in 1..Len(src.v) |-> pollutant_data(src.v[i])] ELSE <<>>)

\* a 200 body is a JSON object, null, a number or a boolean; `"k" in raw_data`
\* raises a TypeError on the last three
_process_air_quality_response(raw_data, now) ==
  LET p0 == PyDict(<< <<"collected_at", PyTime(now)>>,
                      <<"data_source", PyStr("gcp_air_quality_api")>> >>)
      fails ==
        \/ raw_data.t \in {"none", "num", "bool"}
        \/ HasKey(raw_data, "indexes") /\ ~IterableOfDicts(Get(raw_data, "indexes"))
        \/ HasKey(raw_data, "pollutants") /\ ~IterableOfDicts(Get(raw_data, "pollutants"))
      p1 == IF HasKey(raw_data, "indexes")
            THEN Put(p0, "indexes", indexes(Get(raw_data, "indexes")))
            ELSE p0
      p2 == IF HasKey(raw_data, "pollutants")
            THEN Put(p1, "pollutants", pollutants(Get(raw_data, "pollutants")))
            ELSE p1
      p3 == IF HasKey(raw_data, "healthRecommendations")
            THEN Put(p2, "health_recommendations", Get(raw_data, "healthRecommendations"))
            ELSE p2
      p4 == IF HasKey(raw_data, "dominantPollutant")
            THEN Put(p3, "dominant_pollutant", Get(raw_data, "dominantPollutant"))
            ELSE p3
      p5 == IF HasKey(raw_data, "regionCode")
            THEN Put(p4, "region_code", Get(raw_data, "regionCode"))
            ELSE p4
  IN IF fails
     THEN PyDict(<< <<"error", PyStr("TypeError")>>, <<"raw_data", raw_data>> >>)
     ELSE p5

\* mutation: a failed request yields an error marker instead of None
get_air_quality_data_marker(out, now) ==
  IF out.kind = "resp" /\ out.status = 200
  THEN _process_air_quality_response(out.body, now)
  ELSE PyDict(<< <<"error", PyStr("unavailable")>> >>)

\* mutation: a timeout is reported apart from the other failures
get_air_quality_data_timeout(out, now) ==
  IF out.kind = "resp"
  THEN IF out.status = 200 THEN _process_air_quality_response(out.body, now)
       ELSE PyNone
  ELSE IF out.kind = "timeout" THEN PyDict(<< <<"error", PyStr("timeout")>> >>)
  ELSE PyNone

\* the value get_air_quality_data returns for the outcome of its one request
get_air_quality_data(out, now) ==
  IF out.kind = "resp"
  THEN IF out.status = 200 THEN _process_air_quality_response(out.body, now)
       ELSE PyNone
  ELSE PyNone

(***************************************************************************)
(* Weather client                                                          *)
(***************************************************************************)
CurrentRequired ==
  << <<K("main"), K("temp")>>, <<K("main"), K("feels_like")>>,
     <<K("main"), K("humidity")>>, <<K("main"), K("pressure")>>,
     <<K("weather"), I(0), K("main")>>, <<K("weather"), I(0), K("description")>>,
     <<K("weather"), I(0), K("icon")>>, <<K("wind"), K("speed")>>,
     <<K("clouds"), K("all")>>, <<K("name")>>, <<K("sys"), K("country")>>,
     <<K("timezone")>>, <<K("sys"), K("sunrise")>>, <<K("sys"), K("sunset")>>,
     <<K("dt")>> >>

_process_current_weather(data) ==
  LET e == FirstError(data, CurrentRequired, 1) IN
  IF e # ""
  THEN PyDict(<< <<"error", PyStr(e)>>, <<"raw_data", data>> >>)
  ELSE PyDict(<<
    <<"temperature", At(data, <<K("main"), K("temp")>>)>>,
    <<"feels_like", At(data, <<K("main"), K("feels_like")>>)>>,
    <<"humidity", At(data, <<K("main"), K("humidity")>>)>>,
    <<"pressure", At(data, <<K("main"), K("pressure")>>)>>,
    <<"visibility", GetOr(data, "visibility", PyNone)>>,
    <<"uv_index", GetOr(data, "uvi", PyNone)>>,
    <<"weather", PyDict(<<
        <<"main", At(data, <<K("weather"), I(0), K("main")>>)>>,
        <<"description", At(data, <<K("weather"), I(0), K("description")>>)>>,
        <<"icon", At(data, <<K("weather"), I(0), K("icon")>>)>> >>)>>,
    <<"wind", PyDict(<<
        <<"speed", At(data, <<K("wind"), K("speed")>>)>>,
        <<"direction", GetOr(Get(data, "wind"), "deg", PyNone)>>,
        <<"gust", GetOr(Get(data, "wind"), "gust", PyNone)>> >>)>>,
    <<"clouds", At(data, <<K("clouds"), K("all")>>)>>,
    <<"location", PyDict(<<
        <<"name", Get(data, "name")>>,
        <<"country", At(data, <<K("sys"), K("country")>>)>>,
        <<"timezone", Get(data, "timezone")>> >>)>>,
    <<"sunrise", At(data, <<K("sys"), K("sunrise")>>)>>,
    <<"sunset", At(data, <<K("sys"), K("sunset")>>)>>,
    <<"timestamp", Get(data, "dt")>> >>)

ForecastItemRequired ==
  << <<K("dt")>>, <<K("main"), K("temp")>>, <<K("main"), K("feels_like")>>,
     <<K("main"), K("humidity")>>, <<K("main"), K("pressure")>>,
     <<K("weather"), I(0), K("main")>>, <<K("weather"), I(0), K("description")>>,
     <<K("weather"), I(0), K("icon")>>, <<K("wind"), K("speed")>>,
     <<K("clouds"), K("all")>> >>

\* item.get("pop", 0) * 100 raises a TypeError unless pop is a number
PopError(item) ==
  IF IsDict(item) /\ GetOr(item, "pop", PyNum(0)).t # "num" THEN "TypeError" ELSE ""

ForecastItemError(item) ==
  LET e == FirstError(item, ForecastItemRequired, 1) IN
  IF e # "" THEN e ELSE PopError(item)

forecast_entry(item) ==
  PyDict(<<
    <<"datetime", Get(item, "dt")>>,
    <<"temperature", At(item, <<K("main"), K("temp")>>)>>,
    <<"feels_like", At(item, <<K("main"), K("feels_like")>>)>>,
    <<"humidity", At(item, <<K("main"), K("humidity")>>)>>,
    <<"pressure", At(item, <<K("main"), K("pressure")>>)>>,
    <<"weather", PyDict(<<
        <<"main", At(item, <<K("weather"), I(0), K("main")>>)>>,
        <<"description", At(item, <<K("weather"), I(0), K("description")>>)>>,
        <<"icon", At(item, <<K("weather"), I(0), K("icon")>>)>> >>)>>,
    <<"wind_speed", At(item, <<K("wind"), K("speed")>>)>>,
    <<"clouds", At(item, <<K("clouds"), K("all")>>)>>,
    <<"precipitation_probability", PyNum(GetOr(item, "pop", PyNum(0)).v * 100)>> >>)

\* the exception of the loop over data["list"][:8]: the first failing item's
RECURSIVE ItemsError(_, _)
ItemsError(items, i) ==
  IF i > Len(items) THEN ""
  ELSE LET e == ForecastItemError(items[i]) IN
    IF e # "" THEN e ELSE ItemsError(items, i + 1)

CityRequired ==
  << <<K("city"), K("name")>>, <<K("city"), K("country")>>, <<K("city"), K("coord")>> >>

_process_forecast_weather(data) ==
  LET lst == Lookup(data, <<K("list")>>, 1)
      items == IF lst.ok /\ lst.val.t = "list" THEN Take(lst.val.v, 8) ELSE <<>>
      e == IF ~lst.ok THEN lst.err
           ELSE IF lst.val.t # "list" THEN "TypeError"
           ELSE IF ItemsError(items, 1) # "" THEN ItemsError(items, 1)
           ELSE FirstError(data, CityRequired, 1)
  IN IF e # ""
     THEN PyDict(<< <<"error", PyStr(e)>> >>)
     ELSE PyDict(<<
       <<"city", PyDict(<<
           <<"name", At(data, <<K("city"), K("name")>>)>>,
           <<"country", At(data, <<K("city"), K("country")>>)>>,
           <<"coordinates", At(data, <<K("city"), K("coord")>>)>> >>)>>,
       <<"forecasts", PyList([i \in 1..Len(items) |-> forecast_entry(items[i])])>> >>)

OneCallCurrentRequired ==
  << <<K("temp")>>, <<K("feels_like")>>, <<K("pressure")>>, <<K("humidity")>>,
     <<K("dew_point")>>, <<K("uvi")>>, <<K("clouds")>>, <<K("wind_speed")>>,
     <<K("weather")>> >>

current_detailed(current) ==
  PyDict(<<
    <<"temperature", Get(current, "temp")>>,
    <<"feels_like", Get(current, "feels_like")>>,
    <<"pressure", Get(current, "pressure")>>,
    <<"humidity", Get(current, "humidity")>>,
    <<"dew_point", Get(current, "dew_point")>>,
    <<"uvi", Get(current, "uvi")>>,
    <<"clouds", Get(current, "clouds")>>,
    <<"visibility", GetOr(current, "visibility", PyNone)>>,
    <<"wind_speed", Get(current, "wind_speed")>>,
    <<"wind_deg", GetOr(current, "wind_deg", PyNone)>>,
    <<"weather", IF Truthy(Get(current, "weather"))
                 THEN Get(current, "weather").v[1] ELSE PyNone>> >>)

\* data["hourly"][:24] and data["daily"][:7] raise unless the value is a list
SliceError(data, k) ==
  IF HasKey(data, k) /\ Get(data, k).t # "list" THEN "TypeError" ELSE ""

_process_onecall_weather(data) ==
  LET e0 == FirstError(data, << <<K("timezone")>>, <<K("timezone_offset")>> >>, 1)
      e1 == IF e0 # "" THEN e0
            ELSE IF HasKey(data, "current")
                 THEN LET c == FirstError(Get(data, "current"), OneCallCurrentRequired, 1) IN
                      IF c # "" THEN c
                      ELSE IF Truthy(Get(Get(data, "current"), "weather"))
                              /\ Get(Get(data, "current"), "weather").t # "list"
                           THEN "TypeError" ELSE ""
                 ELSE ""
      e2 == IF e1 # "" THEN e1
            ELSE IF SliceError(data, "hourly") # "" THEN SliceError(data, "hourly")
            ELSE SliceError(data, "daily")
      p0 == PyDict(<< <<"timezone", GetOr(data, "timezone", PyNone)>>,
                      <<"timezone_offset", GetOr(data, "timezone_offset", PyNone)>> >>)
      p1 == IF HasKey(data, "current")
            THEN Put(p0, "current_detailed", current_detailed(Get(data, "current")))
            ELSE p0
      p2 == IF HasKey(data, "hourly")
            THEN Put(p1, "hourly", PyList(Take(Get(data, "hourly").v, 24)))
            ELSE p1
      p3 == IF HasKey(data, "daily")
            THEN Put(p2, "daily", PyList(Take(Get(data, "daily").v, 7)))
            ELSE p2
  IN IF e2 # "" THEN PyDict(<< <<"error", PyStr(e2)>> >>) ELSE p3

\* the three sub-requests: the processed body on a 200, None on any other
\* status, None on an exception
_get_current_weather(out) ==
  IF out.kind = "resp" /\ out.status = 200 THEN _process_current_weather(out.body)
  ELSE PyNone

_get_forecast_weather(out) ==
  IF out.kind = "resp" /\ out.status = 200 THEN _process_forecast_weather(out.body)
  ELSE PyNone

_get_onecall_weather(out) ==
  IF out.kind = "resp" /\ out.status = 200 THEN _process_onecall_weather(out.body)
  ELSE PyNone

(***************************************************************************)
(* A coroutine's outcome: it returns a value or raises an exception.       *)
(* asyncio.gather(..., return_exceptions=True) waits for every coroutine   *)
(* and puts each one's value, or its exception object, in the result list. *)
(***************************************************************************)
Return(val) == [raised |-> FALSE, val |-> val]
Raise(msg) == [raised |-> TRUE, val |-> PyExc(msg)]

\* mutation: the first exception cancels the coroutines that did not raise
gather_cancelling(outcomes) ==
  [i \in 1..Len(outcomes) |->
     IF \E j \in 1..Len(outcomes) : outcomes[j].raised /\ ~outcomes[i].raised
     THEN PyExc("CancelledError")
     ELSE outcomes[i].val]

gather(outcomes) == [i \in 1..Len(outcomes) |-> outcomes[i].val]

\* mutation: a sub-resource that failed nulls the whole record
MergeBlockOrNothing(weather_data, k, x) ==
  IF IsNone(weather_data) \/ IsException(x) \/ ~Truthy(x) THEN PyNone
  ELSE Put(weather_data, k, x)

\* `if not isinstance(x, Exception) and x: weather_data[k] = x`
MergeBlock(weather_data, k, x) ==
  IF ~IsException(x) /\ Truthy(x) THEN Put(weather_data, k, x) ELSE weather_data

\* cur, fc, oc: the outcomes of the three sub-requests; internal: an exception
\* raised inside the try body, which the handler of line 70 turns into None
get_weather_data(latitude, longitude, cur, fc, oc, internal, now) ==
  LET res == gather(<< Return(_get_current_weather(cur)),
                       Return(_get_forecast_weather(fc)),
                       Return(_get_onecall_weather(oc)) >>)
      w0 == PyDict(<< <<"collected_at", PyTime(now)>>,
                      <<"data_source", PyStr("openweather_api")>>,
                      <<"location", PyDict(<< <<"latitude", latitude>>,
                                              <<"longitude", longitude>> >>)>> >>)
      w1 == MergeBlock(w0, "current", res[1])
      w2 == MergeBlock(w1, "forecast", res[2])
      w3 == MergeBlock(w2, "detailed", res[3])
  IN IF internal THEN PyNone ELSE w3

(***************************************************************************)
(* Orchestrator                                                            *)
(***************************************************************************)
\* Config.default_latitude / default_longitude, in 1/10000 degree
DefaultLatitude == 488566
DefaultLongitude == 23522

\* mutation: the document counts as usable only when both sources succeeded
collection_status_both(air_quality_data, weather_data) ==
  PyDict(<< <<"air_quality_success", PyBool(~IsNone(air_quality_data))>>,
            <<"weather_success", PyBool(~IsNone(weather_data))>>,
            <<"overall_success",
              PyBool(~IsNone(air_quality_data) /\ ~IsNone(weather_data))>> >>)

\* the 'collection_status' block of the payload
collection_status(air_quality_data, weather_data) ==
  PyDict(<< <<"air_quality_success", PyBool(~IsNone(air_quality_data))>>,
            <<"weather_success", PyBool(~IsNone(weather_data))>>,
            <<"overall_success",
              PyBool(~IsNone(air_quality_data) \/ ~IsNone(weather_data))>> >>)

\* lat, lon: the arguments (PyNone when omitted); aq, w: the outcomes of the
\* two client coroutines handed to gather; now: the clock
collect_all_data(lat, lon, aq, w, now) ==
  LET latitude == IF ~IsNone(lat) THEN lat ELSE PyNum(DefaultLatitude)
      longitude == IF ~IsNone(lon) THEN lon ELSE PyNum(DefaultLongitude)
      res == gather(<<aq, w>>)
      air_quality_data == IF IsException(res[1]) THEN PyNone ELSE res[1]
      weather_data == IF IsException(res[2]) THEN PyNone ELSE res[2]
  IN PyDict(<<
       <<"timestamp", PyTime(now)>>,
       <<"location", PyDict(<<
           <<"latitude", latitude>>,
           <<"longitude", longitude>>,
           <<"source", PyStr(IF ~IsNone(lat) /\ ~IsNone(lon)
                             THEN "user_provided" ELSE "default_config")>> >>)>>,
       <<"air_quality", air_quality_data>>,
       <<"weather", weather_data>>,
       <<"collection_status", collection_status(air_quality_data, weather_data)>> >>)

\* One fetch: the arguments of run, the outcome of every upstream request,
\* and the exceptions that surface in or from the clients.
\*   aq, cur, fc, oc : outcomes of the four HTTP exchanges
\*   aqEscape, wEscape : an exception surfaces from the client's top-level call
\*   wInternal : an exception is raised inside get_weather_data's try body
AirQualityCall(inp, now) ==
  IF inp.aqEscape THEN Raise("air quality") ELSE Return(get_air_quality_data(inp.aq, now))

WeatherCall(inp, now) ==
  LET latitude == IF ~IsNone(inp.lat) THEN inp.lat ELSE PyNum(DefaultLatitude)
      longitude == IF ~IsNone(inp.lon) THEN inp.lon ELSE PyNum(DefaultLongitude)
  IN IF inp.wEscape THEN Raise("weather")
     ELSE Return(get_weather_data(latitude, longitude, inp.cur, inp.fc, inp.oc,
                                  inp.wInternal, now))

Collect(inp, now) ==
  collect_all_data(inp.lat, inp.lon, AirQualityCall(inp, now), WeatherCall(inp, now), now)

(***************************************************************************)
(* Upstream payloads of the model                                          *)
(***************************************************************************)
AQExample ==
  PyDict(<< <<"indexes", PyList(<< PyDict(<< <<"code", PyStr("uaqi")>>,
                                             <<"aqi", PyNum(42)>>,
                                             <<"category", PyStr("Good")>> >>) >>)>>,
            <<"pollutants", PyList(<<>>)>> >>)
AQRich ==
  PyDict(<< <<"indexes", PyList(<< PyDict(<< <<"code", PyStr("uaqi")>>,
                                             <<"displayName", PyStr("Universal AQI")>>,
                                             <<"aqi", PyNum(0)>>,
                                             <<"category", PyStr("Excellent")>> >>) >>)>>,
            <<"pollutants", PyList(<< PyDict(<< <<"code", PyStr("pm25")>>,
                                                <<"concentration",
                                                  PyDict(<< <<"value", PyNum(12)>> >>)>> >>) >>)>>,
            <<"regionCode", PyStr("fr")>> >>)
AQMalformed == PyDict(<< <<"indexes", PyList(<< PyNum(42) >>)>> >>)
\* two indexes, the universal one at the bottom of its scale
AQTwoIndexes ==
  PyDict(<< <<"indexes", PyList(<< PyDict(<< <<"code", PyStr("uaqi")>>,
                                             <<"aqi", PyNum(0)>>,
                                             <<"category", PyStr("Poor")>> >>),
                                   PyDict(<< <<"code", PyStr("fra_atmo")>>,
                                             <<"aqi", PyNum(3)>>,
                                             <<"category", PyStr("Moderate")>> >>) >>)>>,
            <<"pollutants", PyList(<<>>)>> >>)

WeatherTag == PyList(<< PyDict(<< <<"main", PyStr("Clear")>>,
                                  <<"description", PyStr("clear")>>,
                                  <<"icon", PyStr("01d")>> >>) >>)
CurrentFull ==
  PyDict(<< <<"weather", WeatherTag>>,
            <<"main", PyDict(<< <<"temp", PyNum(22)>>, <<"feels_like", PyNum(21)>>,
                                <<"humidity", PyNum(65)>>, <<"pressure", PyNum(1013)>> >>)>>,
            <<"wind", PyDict(<< <<"speed", PyNum(3)>>, <<"deg", PyNum(200)>> >>)>>,
            <<"clouds", PyDict(<< <<"all", PyNum(0)>> >>)>>,
            <<"dt", PyNum(1700)>>,
            <<"sys", PyDict(<< <<"country", PyStr("FR")>>, <<"sunrise", PyNum(1600)>>,
                               <<"sunset", PyNum(1800)>> >>)>>,
            <<"timezone", PyNum(3600)>>,
            <<"name", PyStr("Paris")>> >>)
\* the current-conditions body of the end-to-end scenario
CurrentExample ==
  PyDict(<< <<"main", PyDict(<< <<"temp", PyNum(22)>>, <<"humidity", PyNum(65)>> >>)>>,
            <<"weather", PyList(<< PyDict(<< <<"description", PyStr("clear")>> >>) >>)>>,
            <<"wind", PyDict(<< <<"speed", PyNum(3)>> >>)>>,
            <<"clouds", PyDict(<< <<"all", PyNum(0)>> >>)>>,
            <<"sys", PyDict(<< <<"country", PyStr("FR")>> >>)>>,
            <<"name", PyStr("Paris")>> >>)

ForecastItem(dt, temp) ==
  PyDict(<< <<"dt", PyNum(dt)>>,
            <<"main", PyDict(<< <<"temp", PyNum(temp)>>, <<"feels_like", PyNum(temp)>>,
                                <<"humidity", PyNum(60)>>, <<"pressure", PyNum(1010)>> >>)>>,
            <<"weather", WeatherTag>>,
            <<"wind", PyDict(<< <<"speed", PyNum(4)>> >>)>>,
            <<"clouds", PyDict(<< <<"all", PyNum(10)>> >>)>>,
            <<"pop", PyNum(1)>> >>)
ForecastFull ==
  PyDict(<< <<"list", PyList(<< ForecastItem(1710, 0 - 3), ForecastItem(1720, 5) >>)>>,
            <<"city", PyDict(<< <<"name", PyStr("Paris")>>, <<"country", PyStr("FR")>>,
                                <<"coord", PyDict(<< <<"lat", PyNum(488566)>>,
                                                     <<"lon", PyNum(23522)>> >>)>> >>)>> >>)
ForecastNoCity == PyDict(<< <<"list", PyList(<<>>)>> >>)
\* nine steps, the first of them at 0 degrees
ForecastFrost ==
  PyDict(<< <<"list", PyList(<< ForecastItem(1710, 0), ForecastItem(1720, 5),
                                ForecastItem(1730, 3), ForecastItem(1740, 4),
                                ForecastItem(1750, 6), ForecastItem(1760, 2),
                                ForecastItem(1770, 7), ForecastItem(1780, 1),
                                ForecastItem(1790, 0 - 9) >>)>>,
            <<"city", PyDict(<< <<"name", PyStr("Paris")>>, <<"country", PyStr("FR")>>,
                                <<"coord", PyDict(<< <<"lat", PyNum(488566)>>,
                                                     <<"lon", PyNum(23522)>> >>)>> >>)>> >>)

OneCallFull ==
  PyDict(<< <<"timezone", PyStr("Europe/Paris")>>,
            <<"timezone_offset", PyNum(3600)>>,
            <<"hourly", PyList(<< PyDict(<< <<"temp", PyNum(20)>> >>) >>)>> >>)
OneCallEmpty == PyDict(<<>>)

AQOutcomes ==
  {Response(200, AQExample), Response(200, AQRich), Response(200, AQMalformed),
   Response(500, PyNone), Timeout, NetError}
CurrentOutcomes ==
  {Response(200, CurrentFull), Response(200, CurrentExample), Response(404, PyNone), NetError}
ForecastOutcomes ==
  {Response(200, ForecastFull), Response(200, ForecastNoCity), Response(401, PyNone), Timeout}
OneCallOutcomes ==
  {Response(200, OneCallFull), Response(200, OneCallEmpty), Response(401, PyNone), NetError}

\* a coordinate supplied by the caller, in 1/10000 degree
UserLatitude == PyNum(407128)
UserLongitude == PyNum(0 - 740060)
LatArgs == {PyNone, UserLatitude}
LonArgs == {PyNone, UserLongitude}

FetchInputs ==
  [lat : LatArgs, lon : LonArgs, aq : AQOutcomes, aqEscape : BOOLEAN,
   cur : CurrentOutcomes, fc : ForecastOutcomes, oc : OneCallOutcomes,
   wInternal : BOOLEAN, wEscape : BOOLEAN]

(***************************************************************************)
(* Persistence layer                                                       *)
(***************************************************************************)
SinkNames == {"local_json", "postgresql", "webhook", "custom_api"}
SinkOrder == <<"local_json", "postgresql", "webhook", "custom_api">>
EnvVars == {"DATABASE_URL", "WEBHOOK_URL", "CUSTOM_API_URL"}

\* env: the set of variables that are set in the environment
_get_storage_methods(env) ==
  <<"local_json">>
  \o (IF "DATABASE_URL" \in env THEN <<"postgresql">> ELSE <<>>)
  \o (IF "WEBHOOK_URL" \in env THEN <<"webhook">> ELSE <<>>)
  \o (IF "CUSTOM_API_URL" \in env THEN <<"custom_api">> ELSE <<>>)

Range(s) == {s[i] : i \in 1..Len(s)}
InList(m, methods) == m \in Range(methods)

\* the coroutines save_data appends to tasks, in the order of its four ifs
SaveTasks(methods) == SelectSeq(SinkOrder, LAMBDA m : InList(m, methods))

\* the map save_data builds from the results gather returned for its tasks
\* (taskres: the value or exception object of each task)
SaveResults(methods, taskres) ==
  LET tasks == SaveTasks(methods)
      task_results == [i \in 1..Len(tasks) |-> taskres[tasks[i]]]
      idx == {i \in 1..Len(methods) : i <= Len(task_results)}
  IN PyDict([i \in 1..Cardinality(idx) |->
               <<methods[i], PyBool(~IsException(task_results[i]))>>])

\* outcome of the database exchange of _save_postgresql
PostgresOutcomes == {"ok", "import_error", "connect_error", "insert_error"}
_save_postgresql(out) == PyBool(out = "ok")

SinkHttpOutcomes == {Response(200, PyNone), Response(202, PyNone), Response(500, PyNone), NetError}
_send_webhook(out) == PyBool(out.kind = "resp" /\ out.status \in {200, 201, 202})
_send_custom_api(out) == PyBool(out.kind = "resp" /\ out.status \in {200, 201, 202})

\* a file of the data directory: whether it exists and the text on disk
NoFile == [exists |-> FALSE, text |-> <<>>]
FileOf(text) == [exists |-> TRUE, text |-> text]
\* open(path, 'w') creates or truncates
Truncated == FileOf(<<>>)

\* what `await f.write(text)` has put on disk before the file is closed: the
\* part of the text that left the buffer (none of it is the state after open)
Flushed(text) == SubSeq(text, 1, Len(text) \div 2)

\* what stays in the buffer of the handle until the file is closed
Unflushed(text) == SubSeq(text, Len(Flushed(text)) + 1, Len(text))

\* the content of a file after a handle positioned at pos has written w: a
\* handle opened with 'w' has its own position, what lies beyond its write
\* stays, and a gap below pos reads as NUL
Nul == Tok("nul", "")
WriteAt(text, pos, w) ==
  LET end == pos + Len(w)
      before == IF Len(text) >= pos THEN SubSeq(text, 1, pos)
                ELSE text \o [i \in 1..(pos - Len(text)) |-> Nul]
      beyond == IF Len(text) > end THEN SubSeq(text, end + 1, Len(text)) ELSE <<>>
  IN before \o w \o beyond

\* DataStorage.get_latest_data
storage_get_latest_data(file) ==
  IF file.exists
  THEN LET r == Loads(file.text) IN
       IF r.ok THEN Return(r.val) ELSE Return(PyNone)
  ELSE Return(PyNone)

(***************************************************************************)
(* HTTP readers of data/latest_data.json                                   *)
(***************************************************************************)
Http(status, body) == [status |-> status, body |-> body]

\* x.get(k, dflt) where x may be any value: AttributeError unless x is a dict
DotGet(x, k, dflt) ==
  IF IsDict(x) THEN [ok |-> TRUE, val |-> GetOr(x, k, dflt)]
  ELSE [ok |-> FALSE, val |-> PyNone]

\* mutation: the handler opens the file without testing that it exists
main_get_latest_data_unguarded(file) ==
  IF ~file.exists THEN Http(500, PyStr("error"))
  ELSE IF Loads(file.text).ok THEN Http(200, Loads(file.text).val)
  ELSE Http(500, PyStr("error"))

\* GET /latest of src/main.py
main_get_latest_data(file) ==
  IF ~file.exists THEN Http(404, PyStr("Aucune donnee disponible"))
  ELSE LET r == Loads(file.text) IN
    IF ~r.ok \/ ~IsDict(r.val) THEN Http(500, PyStr("error"))
    ELSE
      LET data == r.val
          w == GetOr(data, "weather", PyNone)
          wcur == DotGet(GetOr(data, "weather", PyDict(<<>>)), "current", PyDict(<<>>))
          temp == IF wcur.ok THEN DotGet(wcur.val, "temperature", PyNone) ELSE wcur
          aqidx == DotGet(GetOr(data, "air_quality", PyDict(<<>>)), "indexes", PyNone)
          aqlist == DotGet(GetOr(data, "air_quality", PyDict(<<>>)), "indexes",
                           PyList(<< PyDict(<<>>) >>))
          first == IF aqlist.ok /\ aqlist.val.t = "list" /\ Len(aqlist.val.v) > 0
                   THEN DotGet(aqlist.val.v[1], "aqi", PyNone)
                   ELSE [ok |-> FALSE, val |-> PyNone]
          raises == \/ Truthy(w) /\ ~temp.ok
                    \/ ~aqidx.ok
                    \/ Truthy(aqidx.val) /\ ~first.ok
      IN IF raises THEN Http(500, PyStr("error"))
         ELSE Http(200, PyDict(<<
           <<"timestamp", GetOr(data, "timestamp", PyNone)>>,
           <<"location", GetOr(data, "location", PyNone)>>,
           <<"collection_status", GetOr(data, "collection_status", PyNone)>>,
           <<"data_summary", PyDict(<<
               <<"air_quality_available",
                 PyBool(~IsNone(GetOr(data, "air_quality", PyNone)))>>,
               <<"weather_available", PyBool(~IsNone(w))>>,
               <<"temperature", IF Truthy(w) THEN temp.val ELSE PyNone>>,
               <<"aqi", IF Truthy(aqidx.val) THEN first.val ELSE PyNone>> >>)>> >>))

\* GET /latest of src/health_check.py
health_get_latest_data(file) ==
  IF ~file.exists THEN Http(404, PyStr("Aucune donnee disponible"))
  ELSE LET r == Loads(file.text) IN
    IF ~r.ok \/ ~IsDict(r.val) THEN Http(500, PyStr("error"))
    ELSE
      LET data == r.val
          w == GetOr(data, "weather", PyNone)
          aq == GetOr(data, "air_quality", PyNone)
          wcur == IF Truthy(w) THEN DotGet(w, "current", PyNone)
                  ELSE [ok |-> TRUE, val |-> PyNone]
          hasCur == wcur.ok /\ Truthy(wcur.val)
          temp == IF hasCur THEN DotGet(wcur.val, "temperature", PyNone)
                  ELSE [ok |-> TRUE, val |-> PyNone]
          winfo == IF hasCur /\ temp.ok THEN DotGet(wcur.val, "weather", PyDict(<<>>))
                   ELSE [ok |-> TRUE, val |-> PyDict(<<>>)]
          descr == IF hasCur /\ winfo.ok THEN DotGet(winfo.val, "description", PyNone)
                   ELSE [ok |-> winfo.ok, val |-> PyNone]
          aqidx == IF Truthy(aq) THEN DotGet(aq, "indexes", PyNone)
                   ELSE [ok |-> TRUE, val |-> PyNone]
          hasIdx == aqidx.ok /\ Truthy(aqidx.val)
          first == IF hasIdx
                   THEN IF aqidx.val.t = "list" THEN DotGet(aqidx.val.v[1], "aqi", PyNone)
                        ELSE [ok |-> FALSE, val |-> PyNone]
                   ELSE [ok |-> TRUE, val |-> PyNone]
          raises == ~wcur.ok \/ ~temp.ok \/ ~winfo.ok \/ ~descr.ok \/ ~aqidx.ok \/ ~first.ok
      IN IF raises THEN Http(500, PyStr("error"))
         ELSE Http(200, PyDict(<<
           <<"timestamp", GetOr(data, "timestamp", PyNone)>>,
           <<"location", GetOr(data, "location", PyNone)>>,
           <<"collection_status", GetOr(data, "collection_status", PyNone)>>,
           <<"data_available", PyDict(<<
               <<"air_quality", PyBool(~IsNone(aq))>>,
               <<"weather", PyBool(~IsNone(w))>> >>)>>,
           <<"summary", PyDict(<<
               <<"temperature", temp.val>>,
               <<"aqi", first.val>>,
               <<"weather_description", descr.val>> >>)>> >>))

(***************************************************************************)
(* Configuration.  env is the set of the names of the variables that are   *)
(* set; "DEFAULT_LATITUDE" is in it when it is set to a text that float()  *)
(* rejects (when it is not set the default applies).                       *)
(***************************************************************************)
RequiredVars == {"GCP_AIR_QUALITY_API_KEY", "GCP_PROJECT_ID", "OPENWEATHER_API_KEY"}

\* Config.__init__ calls _validate_config: ValueError when a required
\* variable is not set
_validate_config(env) ==
  IF RequiredVars \subseteq env THEN Return(PyNone)
  ELSE Raise("Variables d'environnement manquantes")

\* Config.default_latitude: float(os.getenv("DEFAULT_LATITUDE", "48.8566"))
default_latitude(env) ==
  IF "DEFAULT_LATITUDE" \in env THEN Raise("could not convert string to float")
  ELSE Return(PyNum(DefaultLatitude))

\* DataCollectionOrchestrator.__init__: the exception of Config() (or of
\* the key properties it reads) is printed and raised again
DataCollectionOrchestrator(env) ==
  IF _validate_config(env).raised THEN _validate_config(env)
  ELSE Return(PyStr("DataCollectionOrchestrator"))

(***************************************************************************)
(* The run of the orchestrator and the top-level callers                   *)
(***************************************************************************)
\* mutation: run raises when neither source delivered
run_outcome_strict(collected, saved) ==
  IF collected.raised THEN collected
  ELSE IF saved.raised THEN saved
  ELSE IF Get(Get(collected.val, "collection_status"), "overall_success") = PyBool(FALSE)
       THEN [raised |-> TRUE, val |-> PyExc("no data")]
  ELSE [raised |-> FALSE, val |-> collected.val]

\* DataCollectionOrchestrator.run: `data = await collect_all_data(...)`,
\* `result = await save_data(data)`, `return data`; an exception of either
\* call is logged and raised again
run_outcome(collected, saved) ==
  IF collected.raised THEN collected
  ELSE IF saved.raised THEN saved
  ELSE Return(collected.val)

\* exit status of `python main.py collect`: sys.exit(1) when the constructor
\* or run raised
collect_weather_data(outcome) == IF outcome.raised THEN 1 ELSE 0

\* mutation: the exception of run leaves the background task
run_background_collection_uncaught(outcome) ==
  IF outcome.raised THEN outcome ELSE Return(PyNone)

\* run_background_collection: `except Exception` prints; the coroutine
\* returns None either way
run_background_collection(outcome) == Return(PyNone)

(***************************************************************************)
(* Bounds                                                                  *)
(***************************************************************************)
\* the clock counts seconds from 0 to MaxClock
MaxClock == 1
\* run slots: background tasks that can be in flight in one process
NumTasks == 2

Tasks == 1..NumTasks
\* the scheduler of Spec serialises the cycles: it only uses the first slot
SerialTasks == {1}
Seconds == 0..MaxClock

Inp(lat, lon, aq, aqEscape, cur, fc, oc, wInternal, wEscape) ==
  [lat |-> lat, lon |-> lon, aq |-> aq, aqEscape |-> aqEscape, cur |-> cur,
   fc |-> fc, oc |-> oc, wInternal |-> wInternal, wEscape |-> wEscape]

\* the fetches the runs of Spec draw from: everything succeeds; both sources
\* answer with errors; both clients fail at their top level
RunInputs ==
  { Inp(PyNone, PyNone, Response(200, AQExample), FALSE,
        Response(200, CurrentFull), Response(200, ForecastFull),
        Response(200, OneCallFull), FALSE, FALSE),
    Inp(UserLatitude, UserLongitude, Response(500, PyNone), FALSE,
        Response(404, PyNone), Response(401, PyNone), NetError, FALSE, FALSE),
    Inp(PyNone, PyNone, Timeout, FALSE,
        Response(200, CurrentFull), Timeout, Response(200, OneCallFull), TRUE, FALSE) }

\* the fetches of SpecSave: each client succeeds, returns its failure value,
\* or lets an exception surface
SaveInputs ==
  { Inp(PyNone, PyNone, aq, aqEscape, Response(200, CurrentFull), Timeout,
        Response(200, OneCallEmpty), wInternal, wEscape) :
      aq \in {Response(200, AQExample), Response(500, PyNone)},
      aqEscape \in BOOLEAN, wInternal \in BOOLEAN, wEscape \in BOOLEAN }

(***************************************************************************)
(* State                                                                   *)
(***************************************************************************)
VARIABLES
  storage_methods,  \* DataStorage.storage_methods
  now,              \* the clock, in seconds
  latest_file,      \* data/latest_data.json
  run_files,        \* data/weather_data_<second>.json, by second
  run,              \* per slot: the state of the run in flight
  resp,             \* the response a handler is about to return
  probe,            \* input and result of a fetch applied on its own
  environ,          \* os.environ: the names of the variables that are set
  process,          \* where `python main.py <mode>` is: "start", "serving",
                    \* "collecting" or "exited"
  orchestrator_instance,  \* the global of main.py
  constructed,      \* how many DataCollectionOrchestrator objects
                    \* get_orchestrator has constructed in this process
  background_tasks, \* tasks added by handlers whose response is not yet sent
                    \* or whose coroutine has not started
  calls,            \* per network call of a cycle: where its coroutine is
  sessions,         \* the aiohttp.ClientSession objects that were created
  db                \* FirebaseClient.db and the documents of its collections

server_state ==
  <<environ, process, orchestrator_instance, constructed, background_tasks, calls, sessions>>

vars == <<storage_methods, now, latest_file, run_files, run, resp, probe,
          environ, process, orchestrator_instance, constructed, background_tasks,
          calls, sessions, db>>

NoOutcome == [raised |-> FALSE, val |-> PyNone]
\* op: the handler; req: its arguments; out / http: what it returns
NoResp == [op |-> "none", req |-> PyNone, out |-> NoOutcome, http |-> Http(0, PyNone)]
NoProbe == [phase |-> "off"]

NoInp == [none |-> TRUE]

\* inp: the fetch the run met; data: the document collect_all_data returned;
\* saved: the argument of save_data; local: the position in _save_local_json;
\* sec: the second in the name of the per-run file; taskres: the result of
\* each finished sink task; results: the map save_data returned; ret: the
\* outcome of run; task: the outcome of the background task around run; exit:
\* the exit status of the process (-1: still running)
IdleRun ==
  [pc |-> "idle", mode |-> "server", lat |-> PyNone, lon |-> PyNone,
   inp |-> NoInp, data |-> PyNone, save_calls |-> 0, saved |-> PyNone,
   local |-> "start", sec |-> 0,
   finished |-> {}, taskres |-> [m \in SinkNames |-> PyNone],
   attempts |-> [m \in SinkNames |-> 0],
   results |-> PyNone, ret |-> NoOutcome, task |-> NoOutcome, exit |-> 0 - 1]

NoDb == [ready |-> FALSE, weather_data |-> [s \in Seconds |-> PyNone],
         latest_weather |-> PyNone]

\* the network calls of a cycle: the request of the air-quality client, the
\* three sub-requests of the weather client, the two HTTP sinks
FetchCalls == {"air_quality", "current", "forecast", "detailed"}
SinkCalls == {"webhook", "custom_api"}
Calls == FetchCalls \cup SinkCalls

\* pc: "idle", "request" (inside the async with block), "leaving" (the block
\* is being left), "done"; out: how the request ended
IdleCall == [pc |-> "idle", out |-> Timeout]
NoCalls == calls = [c \in Calls |-> IdleCall] /\ sessions = {}

\* a server whose environment is complete, after its first request
Served ==
  /\ environ = RequiredVars
  /\ process = "serving"
  /\ orchestrator_instance = PyStr("DataCollectionOrchestrator")
  /\ constructed = 1
  /\ background_tasks = <<>>

Init ==
  /\ storage_methods = _get_storage_methods({})
  /\ now = 0
  /\ latest_file = NoFile
  /\ run_files = [s \in Seconds |-> NoFile]
  /\ run = [t \in Tasks |-> IdleRun]
  /\ resp = NoResp
  /\ probe = NoProbe
  /\ Served
  /\ NoCalls
  /\ db = NoDb

Quiet == resp = NoResp

(***************************************************************************)
(* Environment                                                             *)
(***************************************************************************)
Tick ==
  /\ Quiet
  /\ now < MaxClock
  /\ now' = now + 1
  /\ UNCHANGED <<storage_methods, latest_file, run_files, run, resp, probe, server_state, db>>

(***************************************************************************)
(* A run: run(lat, lon) is called, collect_all_data gathers the two        *)
(* clients, save_data gathers the sinks, run returns                       *)
(***************************************************************************)
\* mode "collect": `python main.py collect` (no arguments);
\* mode "server": a background task of POST /collect or /collect/location
StartRun(t, mode, lat, lon) ==
  /\ Quiet
  /\ run[t].pc \in {"idle", "done"}
  /\ process = (IF mode = "collect" THEN "collecting" ELSE "serving")
  /\ mode = "collect" => IsNone(lat) /\ IsNone(lon)
  /\ run' = [run EXCEPT ![t] = [IdleRun EXCEPT !.pc = "collect", !.mode = mode,
                                               !.lat = lat, !.lon = lon]]
  /\ UNCHANGED <<storage_methods, now, latest_file, run_files, resp, probe, server_state, db>>

\* run is over with `outcome`: a background task swallows it, the collect
\* mode turns it into the exit status
Returned(r, outcome) ==
  [r EXCEPT !.pc = "done", !.ret = outcome,
            !.task = IF r.mode = "server" THEN run_background_collection(outcome)
                     ELSE NoOutcome,
            !.exit = IF r.mode = "collect" THEN collect_weather_data(outcome) ELSE 0 - 1]

\* `python main.py collect` ends with its run; the server goes on
ProcessAfter(mode) == IF mode = "collect" THEN "exited" ELSE process

\* collect_all_data: a default coordinate that cannot be read raises, and run
\* raises it again; otherwise the gather completes and run passes the
\* document to save_data
CollectAllData(t, inp) ==
  /\ Quiet
  /\ run[t].pc = "collect"
  /\ inp.lat = run[t].lat /\ inp.lon = run[t].lon
  /\ IF (IsNone(run[t].lat) \/ IsNone(run[t].lon)) /\ default_latitude(environ).raised
     THEN /\ run' = [run EXCEPT ![t] = Returned(@, run_outcome(default_latitude(environ),
                                                               NoOutcome))]
          /\ process' = ProcessAfter(run[t].mode)
     ELSE /\ LET data == Collect(inp, now) IN
               run' = [run EXCEPT ![t].pc = "save", ![t].inp = inp, ![t].data = data,
                                  ![t].save_calls = @ + 1, ![t].saved = data]
          /\ process' = process
  /\ UNCHANGED <<storage_methods, now, latest_file, run_files, resp, probe,
                 environ, orchestrator_instance, constructed, background_tasks,
                 calls, sessions, db>>

\* mutation: the first sink that fails cancels its siblings
PendingUnlessFailed(t, m) ==
  /\ run[t].pc = "save"
  /\ InList(m, storage_methods)
  /\ m \notin run[t].finished
  /\ \A f \in run[t].finished : run[t].taskres[f] = PyBool(TRUE)

\* a sink task of this save_data that gather still waits for
Pending(t, m) ==
  /\ run[t].pc = "save"
  /\ InList(m, storage_methods)
  /\ m \notin run[t].finished

Finish(r, m, result) ==
  [r EXCEPT !.finished = @ \cup {m}, !.taskres[m] = result]

\* _save_local_json, one step per await.  ok: whether mkdir and open(path, 'w')
\* succeed; when they raise, the handler of line 110 returns False
LocalOpenRunFile(t, ok) ==
  /\ Quiet
  /\ Pending(t, "local_json") /\ run[t].local = "start"
  /\ IF ok
     THEN /\ run_files' = [run_files EXCEPT ![now] = Truncated]
          /\ run' = [run EXCEPT ![t].local = "run_open", ![t].sec = now,
                                ![t].attempts["local_json"] = @ + 1]
     ELSE /\ run_files' = run_files
          /\ run' = [run EXCEPT ![t] = Finish([@ EXCEPT !.local = "failed",
                                                        !.attempts["local_json"] = @ + 1],
                                              "local_json", PyBool(FALSE))]
  /\ UNCHANGED <<storage_methods, now, latest_file, resp, probe, server_state, db>>

LocalWriteRunFile(t) ==
  /\ Quiet
  /\ Pending(t, "local_json") /\ run[t].local = "run_open"
  /\ run_files' = [run_files EXCEPT ![run[t].sec] =
                     FileOf(WriteAt(@.text, 0, Flushed(Dumps(run[t].saved))))]
  /\ run' = [run EXCEPT ![t].local = "run_written"]
  /\ UNCHANGED <<storage_methods, now, latest_file, resp, probe, server_state, db>>

LocalCloseRunFile(t) ==
  /\ Quiet
  /\ Pending(t, "local_json") /\ run[t].local = "run_written"
  /\ run_files' = [run_files EXCEPT ![run[t].sec] =
                     FileOf(WriteAt(@.text, Len(Flushed(Dumps(run[t].saved))),
                                    Unflushed(Dumps(run[t].saved))))]
  /\ run' = [run EXCEPT ![t].local = "run_closed"]
  /\ UNCHANGED <<storage_methods, now, latest_file, resp, probe, server_state, db>>

LocalOpenLatest(t, ok) ==
  /\ Quiet
  /\ Pending(t, "local_json") /\ run[t].local = "run_closed"
  /\ IF ok
     THEN /\ latest_file' = Truncated
          /\ run' = [run EXCEPT ![t].local = "latest_open"]
     ELSE /\ latest_file' = latest_file
          /\ run' = [run EXCEPT ![t] = Finish([@ EXCEPT !.local = "failed"],
                                              "local_json", PyBool(FALSE))]
  /\ UNCHANGED <<storage_methods, now, run_files, resp, probe, server_state, db>>

LocalWriteLatest(t) ==
  /\ Quiet
  /\ Pending(t, "local_json") /\ run[t].local = "latest_open"
  /\ latest_file' = FileOf(WriteAt(latest_file.text, 0, Flushed(Dumps(run[t].saved))))
  /\ run' = [run EXCEPT ![t].local = "latest_written"]
  /\ UNCHANGED <<storage_methods, now, run_files, resp, probe, server_state, db>>

LocalCloseLatest(t) ==
  /\ Quiet
  /\ Pending(t, "local_json") /\ run[t].local = "latest_written"
  /\ latest_file' = FileOf(WriteAt(latest_file.text, Len(Flushed(Dumps(run[t].saved))),
                                   Unflushed(Dumps(run[t].saved))))
  /\ run' = [run EXCEPT ![t] = Finish([@ EXCEPT !.local = "written"],
                                      "local_json", PyBool(TRUE))]
  /\ UNCHANGED <<storage_methods, now, run_files, resp, probe, server_state, db>>

SavePostgresql(t, out) ==
  /\ Quiet
  /\ Pending(t, "postgresql")
  /\ run' = [run EXCEPT ![t] = Finish([@ EXCEPT !.attempts["postgresql"] = @ + 1],
                                      "postgresql", _save_postgresql(out))]
  /\ UNCHANGED <<storage_methods, now, latest_file, run_files, resp, probe, server_state, db>>

SendWebhook(t, out) ==
  /\ Quiet
  /\ Pending(t, "webhook")
  /\ run' = [run EXCEPT ![t] = Finish([@ EXCEPT !.attempts["webhook"] = @ + 1],
                                      "webhook", _send_webhook(out))]
  /\ UNCHANGED <<storage_methods, now, latest_file, run_files, resp, probe, server_state, db>>

SendCustomApi(t, out) ==
  /\ Quiet
  /\ Pending(t, "custom_api")
  /\ run' = [run EXCEPT ![t] = Finish([@ EXCEPT !.attempts["custom_api"] = @ + 1],
                                      "custom_api", _send_custom_api(out))]
  /\ UNCHANGED <<storage_methods, now, latest_file, run_files, resp, probe, server_state, db>>

\* gather has every task's result: save_data builds its map and returns, run
\* returns the document, and in collect mode the process exits
AllFinished(t) == run[t].finished = Range(SaveTasks(storage_methods))

RunReturn(t) ==
  /\ Quiet
  /\ run[t].pc = "save"
  /\ AllFinished(t)
  /\ LET results == SaveResults(storage_methods, run[t].taskres)
         outcome == run_outcome(Return(run[t].data), Return(results))
     IN run' = [run EXCEPT ![t] = Returned([@ EXCEPT !.results = results], outcome)]
  /\ process' = ProcessAfter(run[t].mode)
  /\ UNCHANGED <<storage_methods, now, latest_file, run_files, resp, probe,
                 environ, orchestrator_instance, constructed, background_tasks,
                 calls, sessions, db>>

(***************************************************************************)
(* Readers.  A reader reads the file as it is at that instant; its         *)
(* response is held in resp until it is returned to the caller.            *)
(***************************************************************************)
GetLatestData ==
  /\ Quiet
  /\ resp' = [NoResp EXCEPT !.op = "get_latest_data",
                            !.out = storage_get_latest_data(latest_file)]
  /\ UNCHANGED <<storage_methods, now, latest_file, run_files, run, probe, server_state, db>>

HttpLatestMain ==
  /\ Quiet
  /\ resp' = [NoResp EXCEPT !.op = "main_latest", !.http = main_get_latest_data(latest_file)]
  /\ UNCHANGED <<storage_methods, now, latest_file, run_files, run, probe, server_state, db>>

HttpLatestHealth ==
  /\ Quiet
  /\ resp' = [NoResp EXCEPT !.op = "health_latest",
                            !.http = health_get_latest_data(latest_file)]
  /\ UNCHANGED <<storage_methods, now, latest_file, run_files, run, probe, server_state, db>>

Respond ==
  /\ ~Quiet
  /\ resp' = NoResp
  /\ UNCHANGED <<storage_methods, now, latest_file, run_files, run, probe, server_state, db>>

LocalStep(t) ==
  \/ \E ok \in BOOLEAN : LocalOpenRunFile(t, ok)
  \/ LocalWriteRunFile(t)
  \/ LocalCloseRunFile(t)
  \/ \E ok \in BOOLEAN : LocalOpenLatest(t, ok)
  \/ LocalWriteLatest(t)
  \/ LocalCloseLatest(t)

\* the steps of the tasks save_data gathers
SaveStep(t) ==
  \/ LocalStep(t)
  \/ \E out \in PostgresOutcomes : SavePostgresql(t, out)
  \/ \E out \in SinkHttpOutcomes : SendWebhook(t, out)
  \/ \E out \in SinkHttpOutcomes : SendCustomApi(t, out)

(***************************************************************************)
(* Spec: the cycles of one server without optional sinks, serialised by   *)
(* the scheduler, and the readers of the latest file.                      *)
(***************************************************************************)
Next ==
  \/ Tick
  \/ \E t \in SerialTasks, inp \in RunInputs : StartRun(t, "server", inp.lat, inp.lon)
  \/ \E t \in SerialTasks, inp \in RunInputs : CollectAllData(t, inp)
  \/ \E t \in SerialTasks : LocalStep(t)
  \/ \E t \in SerialTasks : RunReturn(t)
  \/ GetLatestData
  \/ HttpLatestMain
  \/ HttpLatestHealth
  \/ Respond

Spec == Init /\ [][Next]_vars

(***************************************************************************)
(* SpecSave: one run on a fresh data directory, in every environment.      *)
(***************************************************************************)
InitSave ==
  /\ \E env \in SUBSET EnvVars :
       /\ environ = RequiredVars \cup env
       /\ storage_methods = _get_storage_methods(environ)
  /\ now = 0
  /\ latest_file = NoFile
  /\ run_files = [s \in Seconds |-> NoFile]
  /\ run = [t \in Tasks |-> IdleRun]
  /\ resp = NoResp
  /\ probe = NoProbe
  /\ process \in {"serving", "collecting"}
  /\ orchestrator_instance = PyStr("DataCollectionOrchestrator")
  /\ constructed = 1
  /\ background_tasks = <<>>
  /\ NoCalls
  /\ \E ready \in BOOLEAN : db = [NoDb EXCEPT !.ready = ready]

NextSave ==
  \/ \E t \in SerialTasks, mode \in {"collect", "server"}, inp \in SaveInputs :
       run[t].pc = "idle" /\ StartRun(t, mode, inp.lat, inp.lon)
  \/ \E t \in SerialTasks, inp \in SaveInputs : CollectAllData(t, inp)
  \/ \E t \in SerialTasks : SaveStep(t)
  \/ \E t \in SerialTasks : RunReturn(t)

SpecSave == InitSave /\ [][NextSave]_vars

(***************************************************************************)
(* SpecOverlap: two background runs of one server whose saves interleave   *)
(* at their await points; each slot runs once.                             *)
(***************************************************************************)
OverlapTasks == {1, 2}

\* one fetch in which everything succeeds and one in which both sources
\* answer with errors: their documents differ in length
OverlapInputs ==
  { Inp(PyNone, PyNone, Response(200, AQExample), FALSE,
        Response(200, CurrentFull), Response(200, ForecastFull),
        Response(200, OneCallFull), FALSE, FALSE),
    Inp(UserLatitude, UserLongitude, Response(500, PyNone), FALSE,
        Response(404, PyNone), Response(401, PyNone), NetError, FALSE, FALSE) }

NextOverlap ==
  \/ Tick
  \/ \E t \in OverlapTasks, inp \in OverlapInputs :
       run[t].pc = "idle" /\ StartRun(t, "server", inp.lat, inp.lon)
  \/ \E t \in OverlapTasks, inp \in OverlapInputs : CollectAllData(t, inp)
  \/ \E t \in OverlapTasks : LocalStep(t)
  \/ \E t \in OverlapTasks : RunReturn(t)

SpecOverlap == Init /\ [][NextOverlap]_vars

(***************************************************************************)
(* SpecFetch: collect_all_data applied to every fetch of FetchInputs.      *)
(***************************************************************************)
InitFetch ==
  /\ storage_methods = _get_storage_methods({})
  /\ now \in Seconds
  /\ latest_file = NoFile
  /\ run_files = [s \in Seconds |-> NoFile]
  /\ run = [t \in Tasks |-> IdleRun]
  /\ resp = NoResp
  /\ \E inp \in FetchInputs : probe = [phase |-> "in", inp |-> inp]
  /\ Served
  /\ NoCalls
  /\ db = NoDb

ProbeCollect ==
  /\ probe.phase = "in"
  /\ probe' = [phase |-> "out", inp |-> probe.inp, data |-> Collect(probe.inp, now)]
  /\ UNCHANGED <<storage_methods, now, latest_file, run_files, run, resp, server_state, db>>

NextFetch == ProbeCollect

SpecFetch == InitFetch /\ [][NextFetch]_vars

(***************************************************************************)
(* FirebaseClient: the projection of a document and its two writes         *)
(***************************************************************************)
\* firestore.SERVER_TIMESTAMP: a constant of the library that stands in the
\* written data for the time the server assigns
SERVER_TIMESTAMP == PyStr("SERVER_TIMESTAMP")

\* d.get(k)
GetNone(d, k) == GetOr(d, k, PyNone)
\* d.get(k, {}).get(k2)
GetIn(d, k, k2) == GetNone(GetOr(d, k, PyDict(<<>>)), k2)
\* d.get(k, {}).get(..) raises an AttributeError
NotDictAt(d, k) == HasKey(d, k) /\ ~IsDict(Get(d, k))
ListOfDicts(x) == x.t = "list" /\ \A i \in 1..Len(x.v) : IsDict(x.v[i])

\* the entry appended to simplified['indexes']
index_simple(index) ==
  PyDict(<< <<"code", GetNone(index, "code")>>,
            <<"name", GetNone(index, "display_name")>>,
            <<"aqi", GetNone(index, "aqi")>>,
            <<"category", GetNone(index, "category")>>,
            <<"color", GetOr(index, "color", PyDict(<<>>))>> >>)

\* the entry appended to simplified['main_pollutants']
pollutant_simple(pollutant) ==
  PyDict(<< <<"code", GetNone(pollutant, "code")>>,
            <<"name", GetNone(pollutant, "display_name")>>,
            <<"concentration", GetIn(pollutant, "concentration", "value")>>,
            <<"units", GetIn(pollutant, "concentration", "units")>> >>)

\* the index whose aqi and category the loop leaves in overall_aqi and
\* overall_category: `if not simplified['overall_aqi']` assigns at every
\* index until one has left a truthy aqi
OverallIndex(idx) ==
  LET truthy == {i \in 1..Len(idx) : Truthy(GetNone(idx[i], "aqi"))} IN
  IF truthy # {} THEN CHOOSE i \in truthy : \A j \in truthy : i <= j
  ELSE Len(idx)

\* FirebaseClient._simplify_air_quality; an exception of the body returns the
\* argument as it came
_simplify_air_quality(air_quality_data) ==
  IF ~Truthy(air_quality_data) THEN PyNone
  ELSE
    LET idx == GetOr(air_quality_data, "indexes", PyList(<<>>))
        pol == GetOr(air_quality_data, "pollutants", PyList(<<>>))
        top == IF pol.t = "list" THEN Take(pol.v, 5) ELSE <<>>
        kept == SelectSeq(top, LAMBDA q : Truthy(GetNone(q, "concentration")))
        fails ==
          \/ ~IsDict(air_quality_data)
          \/ ~ListOfDicts(idx)
          \/ ~ListOfDicts(pol)
          \/ \E i \in 1..Len(kept) : NotDictAt(kept[i], "concentration")
    IN IF fails THEN air_quality_data
       ELSE PyDict(<<
         <<"collected_at", GetNone(air_quality_data, "collected_at")>>,
         <<"data_source", GetNone(air_quality_data, "data_source")>>,
         <<"overall_aqi", IF Len(idx.v) = 0 THEN PyNone
                          ELSE GetNone(idx.v[OverallIndex(idx.v)], "aqi")>>,
         <<"overall_category", IF Len(idx.v) = 0 THEN PyNone
                               ELSE GetNone(idx.v[OverallIndex(idx.v)], "category")>>,
         <<"dominant_pollutant", GetNone(air_quality_data, "dominant_pollutant")>>,
         <<"indexes", PyList([i \in 1..Len(idx.v) |-> index_simple(idx.v[i])])>>,
         <<"main_pollutants",
           PyList([i \in 1..Len(kept) |-> pollutant_simple(kept[i])])>> >>)

\* FirebaseClient._extract_aqi
_extract_aqi(air_quality_data) ==
  IF ~Truthy(air_quality_data) \/ ~HasKey(air_quality_data, "indexes") THEN PyNone
  ELSE IF Truthy(Get(air_quality_data, "indexes"))
       THEN GetNone(Get(air_quality_data, "indexes").v[1], "aqi")
       ELSE PyNone

\* FirebaseClient._extract_air_quality_level
_extract_air_quality_level(air_quality_data) ==
  IF ~Truthy(air_quality_data) \/ ~HasKey(air_quality_data, "indexes") THEN PyNone
  ELSE IF Truthy(Get(air_quality_data, "indexes"))
       THEN GetNone(Get(air_quality_data, "indexes").v[1], "category")
       ELSE PyNone

\* simplified['current']
current_simple(current) ==
  PyDict(<< <<"temperature", GetNone(current, "temperature")>>,
            <<"feels_like", GetNone(current, "feels_like")>>,
            <<"humidity", GetNone(current, "humidity")>>,
            <<"pressure", GetNone(current, "pressure")>>,
            <<"description", GetIn(current, "weather", "description")>>,
            <<"icon", GetIn(current, "weather", "icon")>>,
            <<"wind_speed", GetIn(current, "wind", "speed")>>,
            <<"clouds", GetNone(current, "clouds")>>,
            <<"city_name", GetIn(current, "location", "name")>>,
            <<"country", GetIn(current, "location", "country")>>,
            <<"sunrise", GetNone(current, "sunrise")>>,
            <<"sunset", GetNone(current, "sunset")>> >>)

\* the entry appended to simplified['forecast_24h']
forecast_item(item) ==
  PyDict(<< <<"datetime", GetNone(item, "datetime")>>,
            <<"temperature", GetNone(item, "temperature")>>,
            <<"description", GetIn(item, "weather", "description")>>,
            <<"icon", GetIn(item, "weather", "icon")>>,
            <<"precipitation_probability", GetNone(item, "precipitation_probability")>>,
            <<"wind_speed", GetNone(item, "wind_speed")>> >>)

RECURSIVE SumOf(_)
SumOf(temps) == IF temps = <<>> THEN 0 ELSE Head(temps).v + SumOf(Tail(temps))

\* round(total / n, 1), in tenths: the quotient of integers is a multiple of
\* 0.25 whenever it lies halfway, so round() sees it exactly and rounds to even
\* a number with one decimal
PyTenths(n) == [t |-> "tenths", v |-> n]

RoundedAverage(total, n) ==
  LET q == (10 * total) \div n
      r == (10 * total) % n
  IN PyTenths(IF 2 * r > n THEN q + 1
              ELSE IF 2 * r = n THEN q + (q % 2)
              ELSE q)

\* simplified['forecast_summary'] for the truthy temperatures of forecast_24h
forecast_summary(temps) ==
  IF temps = <<>> THEN PyNone
  ELSE PyDict(<<
    <<"temp_min", CHOOSE x \in Range(temps) : \A y \in Range(temps) : x.v <= y.v>>,
    <<"temp_max", CHOOSE x \in Range(temps) : \A y \in Range(temps) : x.v >= y.v>>,
    <<"avg_temp", RoundedAverage(SumOf(temps), Len(temps))>> >>)

\* FirebaseClient._simplify_weather_data; an exception of the body returns the
\* argument as it came
_simplify_weather_data(weather_data) ==
  IF ~Truthy(weather_data) THEN PyNone
  ELSE
    LET current == GetNone(weather_data, "current")
        forecast == GetNone(weather_data, "forecast")
        listed == Truthy(forecast) /\ HasKey(forecast, "forecasts")
        items == IF listed /\ Get(forecast, "forecasts").t = "list"
                 THEN Take(Get(forecast, "forecasts").v, 8) ELSE <<>>
        forecast_24h == [i \in 1..Len(items) |-> forecast_item(items[i])]
        temps == SelectSeq([i \in 1..Len(items) |-> GetNone(items[i], "temperature")],
                           Truthy)
        fails ==
          \/ ~IsDict(weather_data)
          \/ Truthy(current) /\ (\/ ~IsDict(current)
                                 \/ \E k \in {"weather", "wind", "location"} :
                                      NotDictAt(current, k))
          \/ Truthy(forecast) /\ ~IsDict(forecast)
          \/ listed /\ ~ListOfDicts(Get(forecast, "forecasts"))
          \/ \E i \in 1..Len(items) : NotDictAt(items[i], "weather")
          \/ \E i \in 1..Len(temps) : temps[i].t # "num"
    IN IF fails THEN weather_data
       ELSE PyDict(<<
         <<"collected_at", GetNone(weather_data, "collected_at")>>,
         <<"data_source", GetNone(weather_data, "data_source")>>,
         <<"location", GetNone(weather_data, "location")>>,
         <<"current", IF Truthy(current) THEN current_simple(current) ELSE PyNone>>,
         <<"forecast_24h", PyList(forecast_24h)>>,
         <<"forecast_summary", forecast_summary(temps)>> >>)

\* mutation: the projection stamps the document with the clock
_prepare_firestore_data_stamped(data) ==
  IF ~IsDict(data) THEN data
  ELSE PyDict(<<
    <<"timestamp", GetNone(data, "timestamp")>>,
    <<"collected_at", PyTime(now)>>,
    <<"location", GetOr(data, "location", PyDict(<<>>))>>,
    <<"collection_status", GetOr(data, "collection_status", PyDict(<<>>))>>,
    <<"air_quality", _simplify_air_quality(GetNone(data, "air_quality"))>>,
    <<"weather", _simplify_weather_data(GetNone(data, "weather"))>>,
    <<"raw_data_available", PyBool(TRUE)>> >>)

\* FirebaseClient._prepare_firestore_data
_prepare_firestore_data(data) ==
  IF ~IsDict(data) THEN data
  ELSE PyDict(<<
    <<"timestamp", GetNone(data, "timestamp")>>,
    <<"collected_at", SERVER_TIMESTAMP>>,
    <<"location", GetOr(data, "location", PyDict(<<>>))>>,
    <<"collection_status", GetOr(data, "collection_status", PyDict(<<>>))>>,
    <<"air_quality", _simplify_air_quality(GetNone(data, "air_quality"))>>,
    <<"weather", _simplify_weather_data(GetNone(data, "weather"))>>,
    <<"raw_data_available", PyBool(TRUE)>> >>)

\* how the two set() calls of save_weather_data end
FirestoreOutcomes == {"ok", "first_set_raises", "second_set_raises"}

\* FirebaseClient.save_weather_data(data) on the document held in probe: the
\* per-run document is named after the second read from the clock here
SaveWeatherData(out) ==
  /\ Quiet
  /\ probe.phase = "out"
  /\ IF ~db.ready
     THEN /\ out = "ok"
          /\ db' = db
          /\ resp' = [NoResp EXCEPT !.op = "save_weather_data",
                                    !.out = Return(PyBool(FALSE))]
     ELSE LET firestore_data == _prepare_firestore_data(probe.data) IN
          /\ db' = [db EXCEPT
                      !.weather_data[now] =
                         IF out = "first_set_raises" THEN @ ELSE firestore_data,
                      !.latest_weather = IF out = "ok" THEN firestore_data ELSE @]
          /\ resp' = [NoResp EXCEPT !.op = "save_weather_data",
                                    !.out = Return(PyBool(out = "ok"))]
  /\ UNCHANGED <<storage_methods, now, latest_file, run_files, run, probe, server_state>>

(***************************************************************************)
(* SpecFirebase: a client, initialised or not, saves one collected         *)
(* document again and again while the clock advances.                      *)
(***************************************************************************)
FirebaseInputs ==
  { Inp(PyNone, PyNone, aq, FALSE, cur, fc, Response(200, OneCallFull), FALSE, wEscape) :
      aq \in {Response(200, AQExample), Response(200, AQRich),
               Response(200, AQTwoIndexes), Response(500, PyNone)},
      cur \in {Response(200, CurrentFull), Response(200, CurrentExample)},
      fc \in {Response(200, ForecastFull), Response(200, ForecastNoCity),
               Response(200, ForecastFrost)},
      wEscape \in BOOLEAN }

InitFirebase ==
  /\ storage_methods = _get_storage_methods({})
  /\ now = 0
  /\ latest_file = NoFile
  /\ run_files = [s \in Seconds |-> NoFile]
  /\ run = [t \in Tasks |-> IdleRun]
  /\ resp = NoResp
  /\ \E inp \in FirebaseInputs :
       probe = [phase |-> "out", inp |-> inp, data |-> Collect(inp, now)]
  /\ Served
  /\ NoCalls
  /\ \E ready \in BOOLEAN : db = [NoDb EXCEPT !.ready = ready]

NextFirebase ==
  \/ \E out \in FirestoreOutcomes : SaveWeatherData(out)
  \/ Tick
  \/ Respond

SpecFirebase == InitFirebase /\ [][NextFirebase]_vars

(***************************************************************************)
(* The API server of main.py and the health server of health_check.py      *)
(***************************************************************************)
\* coordinates are in 1/10000 degree
Degrees(n) == n * 10000

\* mutation: every call constructs an orchestrator
get_orchestrator_eager(instance, env) ==
  LET made == DataCollectionOrchestrator(env) IN
  [out |-> made, instance |-> IF made.raised THEN instance ELSE made.val,
   built |-> IF made.raised THEN 0 ELSE 1]

\* get_orchestrator: the instance it returns (or the exception of the
\* constructor), the global afterwards, and how many objects the call
\* constructed
get_orchestrator(instance, env) ==
  IF ~IsNone(instance)
  THEN [out |-> Return(instance), instance |-> instance, built |-> 0]
  ELSE LET made == DataCollectionOrchestrator(env) IN
       [out |-> made, instance |-> IF made.raised THEN PyNone ELSE made.val,
        built |-> IF made.raised THEN 0 ELSE 1]

\* background_tasks.add_task(run_background_collection, orchestrator, lat, lon)
Task(lat, lon) == [lat |-> lat, lon |-> lon]

\* what a handler leaves behind: its response, the global, the objects it
\* had constructed, the tasks it added
Handled(http, instance, built, tasks) ==
  [http |-> http, instance |-> instance, built |-> built, tasks |-> tasks]

ErrorDetail(exc) ==
  PyDict(<< <<"success", PyBool(FALSE)>>, <<"error", PyStr(exc.v)>> >>)

\* POST /collect
trigger_collection(instance, env) ==
  LET o == get_orchestrator(instance, env) IN
  IF o.out.raised
  THEN Handled(Http(500, ErrorDetail(o.out.val)), o.instance, o.built, <<>>)
  ELSE Handled(Http(200, PyDict(<< <<"success", PyBool(TRUE)>>,
                                   <<"location", PyStr("default_configuration")>> >>)),
               o.instance, o.built, <<Task(PyNone, PyNone)>>)

\* POST /collect/location?latitude=..&longitude=..
trigger_location_collection(latitude, longitude, instance, env) ==
  IF ~(Degrees(0 - 90) <= latitude.v /\ latitude.v <= Degrees(90))
  THEN Handled(Http(400, PyStr("Latitude doit etre entre -90 et 90")), instance, 0, <<>>)
  ELSE IF ~(Degrees(0 - 180) <= longitude.v /\ longitude.v <= Degrees(180))
  THEN Handled(Http(400, PyStr("Longitude doit etre entre -180 et 180")), instance, 0,
               <<>>)
  ELSE LET o == get_orchestrator(instance, env) IN
       IF o.out.raised
       THEN Handled(Http(500, ErrorDetail(o.out.val)), o.instance, o.built, <<>>)
       ELSE Handled(Http(200, PyDict(<< <<"success", PyBool(TRUE)>>,
                                        <<"location", PyDict(<< <<"latitude", latitude>>,
                                                                <<"longitude", longitude>> >>)>> >>)),
                    o.instance, o.built, <<Task(latitude, longitude)>>)

\* the import of api.location_handler at the top of main.py fails: the
\* package is not part of the repository
LOCATION_API_AVAILABLE == PyBool(FALSE)

\* GET /status
simple_status(instance, env, clock) ==
  LET o == get_orchestrator(instance, env) IN
  IF o.out.raised
  THEN Handled(Http(503, PyDict(<< <<"status", PyStr("error")>>,
                                   <<"error", PyStr(o.out.val.v)>> >>)),
               o.instance, o.built, <<>>)
  ELSE Handled(Http(200, PyDict(<< <<"status", PyStr("operational")>>,
                                   <<"timestamp", PyTime(clock)>>,
                                   <<"collector_ready", PyBool(TRUE)>>,
                                   <<"api_ready", PyBool(TRUE)>>,
                                   <<"geolocation_available", LOCATION_API_AVAILABLE>> >>)),
               o.instance, o.built, <<>>)

\* storage.get_firebase_status(): DataStorage defines no such method
get_firebase_status ==
  Raise("'DataStorage' object has no attribute 'get_firebase_status'")

FirebaseReady(status) ==
  ~status.raised /\ Truthy(GetOr(status.val, "firestore_client_ready", PyBool(FALSE)))

Unhealthy(exc) ==
  PyDict(<< <<"status", PyStr("unhealthy")>>, <<"error", PyStr(exc.v)>> >>)

\* GET /health of main.py: every exception of the body becomes HTTP 500
main_health_check(env) ==
  IF _validate_config(env).raised THEN Http(500, Unhealthy(_validate_config(env).val))
  ELSE IF get_firebase_status.raised THEN Http(500, Unhealthy(get_firebase_status.val))
  ELSE IF default_latitude(env).raised THEN Http(500, Unhealthy(default_latitude(env).val))
  ELSE Http(200, PyDict(<<
         <<"status", PyStr("healthy")>>,
         <<"services", PyDict(<< <<"weather_collection", PyBool(TRUE)>>,
                                 <<"air_quality_collection", PyBool(TRUE)>>,
                                 <<"firebase", GetOr(get_firebase_status.val,
                                                     "firestore_client_ready",
                                                     PyBool(FALSE))>> >>)>>,
         <<"api_keys", PyDict(<< <<"openweather", PyStr("configured")>>,
                                 <<"gcp_air_quality", PyStr("configured")>> >>)>> >>))

\* GET /health of health_check.py
health_health_check(env) ==
  LET missing_vars == RequiredVars \ env
      configured == IF missing_vars # {} THEN "unhealthy" ELSE "healthy"
      status == IF ~FirebaseReady(get_firebase_status) /\ configured = "healthy"
                THEN "degraded" ELSE configured
      body == PyDict(<<
                <<"status", PyStr(status)>>,
                <<"checks", PyDict(<<
                    <<"config", PyDict(<< <<"status",
                        PyStr(IF missing_vars # {} THEN "error" ELSE "ok")>> >>)>>,
                    <<"firebase",
                      IF get_firebase_status.raised
                      THEN PyDict(<< <<"status", PyStr("error")>> >>)
                      ELSE get_firebase_status.val>> >>)>> >>)
  IN Http(IF status = "unhealthy" THEN 503 ELSE 200, body)

\* `python main.py server`: run_api_server starts uvicorn; nothing reads the
\* configuration before the first request
RunApiServer ==
  /\ process = "start"
  /\ process' = "serving"
  /\ UNCHANGED <<storage_methods, now, latest_file, run_files, run, resp, probe,
                 environ, orchestrator_instance, constructed, background_tasks,
                 calls, sessions, db>>

\* `python main.py collect`: collect_weather_data constructs its own
\* orchestrator and awaits run(); an exception of either ends in sys.exit(1)
MainCollect ==
  /\ process = "start"
  /\ LET made == DataCollectionOrchestrator(environ) IN
     IF made.raised
     THEN /\ process' = "exited"
          /\ run' = [run EXCEPT ![1].exit = collect_weather_data(made)]
     ELSE /\ process' = "collecting"
          /\ run' = [run EXCEPT ![1] = [IdleRun EXCEPT !.pc = "collect",
                                                       !.mode = "collect"]]
  /\ UNCHANGED <<storage_methods, now, latest_file, run_files, resp, probe,
                 environ, orchestrator_instance, constructed, background_tasks,
                 calls, sessions, db>>

\* the tasks a server holds are bounded by MaxQueue
MaxQueue == 2

PostCollect ==
  /\ Quiet
  /\ process = "serving"
  /\ Len(background_tasks) < MaxQueue
  /\ LET h == trigger_collection(orchestrator_instance, environ) IN
       /\ resp' = [NoResp EXCEPT !.op = "collect", !.req = Task(PyNone, PyNone),
                                 !.http = h.http]
       /\ orchestrator_instance' = h.instance
       /\ constructed' = constructed + h.built
       /\ background_tasks' = background_tasks \o h.tasks
  /\ UNCHANGED <<storage_methods, now, latest_file, run_files, run, probe,
                 environ, process, calls, sessions, db>>

PostCollectLocation(latitude, longitude) ==
  /\ Quiet
  /\ process = "serving"
  /\ Len(background_tasks) < MaxQueue
  /\ LET h == trigger_location_collection(latitude, longitude,
                                          orchestrator_instance, environ) IN
       /\ resp' = [NoResp EXCEPT !.op = "collect_location",
                                 !.req = Task(latitude, longitude), !.http = h.http]
       /\ orchestrator_instance' = h.instance
       /\ constructed' = constructed + h.built
       /\ background_tasks' = background_tasks \o h.tasks
  /\ UNCHANGED <<storage_methods, now, latest_file, run_files, run, probe,
                 environ, process, calls, sessions, db>>

\* once the response is sent the server awaits the task:
\* run_background_collection(orchestrator, lat, lon) calls run(lat, lon)
BackgroundStart(t) ==
  /\ Quiet
  /\ process = "serving"
  /\ background_tasks # <<>>
  /\ run[t].pc \in {"idle", "done"}
  /\ run' = [run EXCEPT ![t] = [IdleRun EXCEPT !.pc = "collect", !.mode = "server",
                                               !.lat = Head(background_tasks).lat,
                                               !.lon = Head(background_tasks).lon]]
  /\ background_tasks' = Tail(background_tasks)
  /\ UNCHANGED <<storage_methods, now, latest_file, run_files, resp, probe,
                 environ, process, orchestrator_instance, constructed,
                 calls, sessions, db>>

GetStatus ==
  /\ Quiet
  /\ process = "serving"
  /\ LET h == simple_status(orchestrator_instance, environ, now) IN
       /\ resp' = [NoResp EXCEPT !.op = "status", !.http = h.http]
       /\ orchestrator_instance' = h.instance
       /\ constructed' = constructed + h.built
  /\ UNCHANGED <<storage_methods, now, latest_file, run_files, run, probe,
                 environ, process, background_tasks, calls, sessions, db>>

GetHealthMain ==
  /\ Quiet
  /\ process = "serving"
  /\ resp' = [NoResp EXCEPT !.op = "main_health", !.http = main_health_check(environ)]
  /\ UNCHANGED <<storage_methods, now, latest_file, run_files, run, probe, server_state, db>>

\* the health server is a process of its own in the same environment
GetHealthCheck ==
  /\ Quiet
  /\ resp' = [NoResp EXCEPT !.op = "health_health",
                            !.http = health_health_check(environ)]
  /\ UNCHANGED <<storage_methods, now, latest_file, run_files, run, probe, server_state, db>>

(***************************************************************************)
(* SpecApi: a process is started in either mode, in a complete             *)
(* environment, in one that lacks a required variable and in one whose     *)
(* default latitude cannot be read; the server takes requests.             *)
(***************************************************************************)
ApiEnvs ==
  { RequiredVars,
    RequiredVars \ {"OPENWEATHER_API_KEY"},
    RequiredVars \cup {"DEFAULT_LATITUDE"} }

LatitudeArgs == {UserLatitude, PyNum(Degrees(95))}
LongitudeArgs == {UserLongitude, PyNum(Degrees(0 - 181))}

ApiInputs ==
  { Inp(c[1], c[2], aq, FALSE, Response(200, CurrentFull), Timeout,
        Response(200, OneCallEmpty), FALSE, FALSE) :
      c \in {<<PyNone, PyNone>>, <<UserLatitude, UserLongitude>>},
      aq \in {Response(200, AQExample), Response(500, PyNone)} }

InitApi ==
  /\ storage_methods = _get_storage_methods({})
  /\ now = 0
  /\ latest_file = NoFile
  /\ run_files = [s \in Seconds |-> NoFile]
  /\ run = [t \in Tasks |-> IdleRun]
  /\ resp = NoResp
  /\ probe = NoProbe
  /\ environ \in ApiEnvs
  /\ process = "start"
  /\ orchestrator_instance = PyNone
  /\ constructed = 0
  /\ background_tasks = <<>>
  /\ NoCalls
  /\ db = NoDb

NextApi ==
  \/ RunApiServer
  \/ MainCollect
  \/ PostCollect
  \/ \E latitude \in LatitudeArgs, longitude \in LongitudeArgs :
       PostCollectLocation(latitude, longitude)
  \/ GetStatus
  \/ GetHealthMain
  \/ GetHealthCheck
  \/ \E t \in SerialTasks : BackgroundStart(t)
  \/ \E t \in SerialTasks, inp \in ApiInputs : CollectAllData(t, inp)
  \/ \E t \in SerialTasks : LocalStep(t)
  \/ \E t \in SerialTasks : RunReturn(t)
  \/ Respond

SpecApi == InitApi /\ [][NextApi]_vars

(***************************************************************************)
(* Network sessions.  Every request sits in                                *)
(*   async with aiohttp.ClientSession() as session:                        *)
(*       async with session.get/post(...) as response:                     *)
(* inside the try of its coroutine.                                        *)
(***************************************************************************)
\* aiohttp.ClientSession(): a new object, owned by the call that made it
ClientSession(c) == [owner |-> c, open |-> TRUE]

\* mutation: the session is closed by the code that handles a response
ClientSession_aexit_on_response(session, out) ==
  [session EXCEPT !.open = (out.kind # "resp")]

\* ClientSession.__aexit__: the block is left, by a return or by an
\* exception, and the session is closed
ClientSession_aexit(session, out) == [session EXCEPT !.open = FALSE]

\* how the request of a call can end: 200, another status, a timeout, an
\* exception of the transport
SessionOutcomes == {Response(200, PyNone), Response(500, PyNone), Timeout, NetError}

\* the fetch is over: save_data starts after collect_all_data returned
FetchOver == \A c \in FetchCalls : calls[c].pc = "done"

\* the coroutine of call c enters its `async with aiohttp.ClientSession()`
CallEnter(c) ==
  /\ calls[c].pc = "idle"
  /\ c \in SinkCalls => FetchOver /\ InList(c, storage_methods)
  /\ calls' = [calls EXCEPT ![c].pc = "request"]
  /\ sessions' = sessions \cup {ClientSession(c)}
  /\ UNCHANGED <<storage_methods, now, latest_file, run_files, run, resp, probe,
                 environ, process, orchestrator_instance, constructed, background_tasks, db>>

\* the request of call c ends with `out`: the body returns or raises
CallRequest(c, out) ==
  /\ calls[c].pc = "request"
  /\ calls' = [calls EXCEPT ![c] = [pc |-> "leaving", out |-> out]]
  /\ UNCHANGED <<storage_methods, now, latest_file, run_files, run, resp, probe,
                 environ, process, orchestrator_instance, constructed, background_tasks,
                 sessions, db>>

\* the block is left: __aexit__ runs before the return value or the exception
\* reaches the except clauses of the coroutine
CallLeave(c) ==
  /\ calls[c].pc = "leaving"
  /\ calls' = [calls EXCEPT ![c].pc = "done"]
  /\ sessions' = {IF session.owner = c /\ session.open
                  THEN ClientSession_aexit(session, calls[c].out)
                  ELSE session : session \in sessions}
  /\ UNCHANGED <<storage_methods, now, latest_file, run_files, run, resp, probe,
                 environ, process, orchestrator_instance, constructed, background_tasks, db>>

(***************************************************************************)
(* SpecSession: the network calls of one cycle of a server with both HTTP  *)
(* sinks configured.                                                       *)
(***************************************************************************)
InitSession ==
  /\ environ = RequiredVars \cup {"WEBHOOK_URL", "CUSTOM_API_URL"}
  /\ storage_methods = _get_storage_methods(environ)
  /\ now = 0
  /\ latest_file = NoFile
  /\ run_files = [s \in Seconds |-> NoFile]
  /\ run = [t \in Tasks |-> IdleRun]
  /\ resp = NoResp
  /\ probe = NoProbe
  /\ process = "serving"
  /\ orchestrator_instance = PyStr("DataCollectionOrchestrator")
  /\ constructed = 1
  /\ background_tasks = <<>>
  /\ NoCalls
  /\ db = NoDb

NextSession ==
  \/ \E c \in Calls : CallEnter(c)
  \/ \E c \in Calls, out \in SessionOutcomes : CallRequest(c, out)
  \/ \E c \in Calls : CallLeave(c)

SpecSession == InitSession /\ [][NextSession]_vars

(***************************************************************************)
(* Properties                                                              *)
(***************************************************************************)
\* an exchange that gave a usable response: status 200
Usable(out) == out.kind = "resp" /\ out.status = 200
Flag(data, k) == Get(Get(data, "collection_status"), k)

\* the two records of a document are null and its three flags are false
BothNull(data) ==
  /\ Get(data, "air_quality") = PyNone
  /\ Get(data, "weather") = PyNone
  /\ Flag(data, "air_quality_success") = PyBool(FALSE)
  /\ Flag(data, "weather_success") = PyBool(FALSE)
  /\ Flag(data, "overall_success") = PyBool(FALSE)

\* C1: in every document collect_all_data builds, air_quality_success is true
\* exactly when air_quality is not null, weather_success exactly when weather
\* is not null, and overall_success is their disjunction.
C1_OverallSuccess ==
  probe.phase = "out" =>
    LET data == probe.data IN
      /\ Flag(data, "air_quality_success") = PyBool(Get(data, "air_quality") # PyNone)
      /\ Flag(data, "weather_success") = PyBool(Get(data, "weather") # PyNone)
      /\ Flag(data, "overall_success")
           = PyBool(Flag(data, "air_quality_success").v \/ Flag(data, "weather_success").v)

\* one source failed by raising, the other delivered: the document is usable
C1_Witness ==
  /\ probe.phase = "out"
  /\ probe.inp.aqEscape /\ ~probe.inp.wEscape /\ ~probe.inp.wInternal
  /\ Get(probe.data, "air_quality") = PyNone
  /\ Get(probe.data, "weather") # PyNone
  /\ Flag(probe.data, "overall_success") = PyBool(TRUE)

\* a sub-block of the weather record: present and the processed body when its
\* sub-request gave a usable response, absent otherwise
BlockAsFetched(weather, k, out, block) ==
  IF Usable(out) THEN HasKey(weather, k) /\ Get(weather, k) = block
  ELSE ~HasKey(weather, k)

\* C2: whatever subset of the three sub-requests fails, get_weather_data
\* returns a record that holds the block of each sub-request that succeeded
\* and no block for each one that failed, and weather_success is true.
C2_PartialWeather ==
  (probe.phase = "out" /\ ~probe.inp.wInternal /\ ~probe.inp.wEscape) =>
    LET weather == Get(probe.data, "weather")
        inp == probe.inp
    IN /\ IsDict(weather)
       /\ BlockAsFetched(weather, "current", inp.cur, _process_current_weather(inp.cur.body))
       /\ BlockAsFetched(weather, "forecast", inp.fc, _process_forecast_weather(inp.fc.body))
       /\ BlockAsFetched(weather, "detailed", inp.oc, _process_onecall_weather(inp.oc.body))
       /\ inp.cur = Response(200, CurrentFull) =>
            Get(Get(weather, "current"), "temperature") = PyNum(22)
       /\ Flag(probe.data, "weather_success") = PyBool(TRUE)

\* the forecast times out while current conditions and the detail succeed
C2_Witness ==
  /\ probe.phase = "out"
  /\ ~probe.inp.wInternal /\ ~probe.inp.wEscape
  /\ probe.inp.cur = Response(200, CurrentFull)
  /\ probe.inp.fc = Timeout
  /\ Usable(probe.inp.oc)
  /\ HasKey(Get(probe.data, "weather"), "current")
  /\ ~HasKey(Get(probe.data, "weather"), "forecast")
  /\ HasKey(Get(probe.data, "weather"), "detailed")
  /\ Flag(probe.data, "weather_success") = PyBool(TRUE)

\* the air-quality request and every weather sub-request of a fetch got no
\* usable response
AllRequestsFailed(inp) ==
  /\ ~inp.aqEscape /\ ~Usable(inp.aq)
  /\ ~inp.wEscape /\ ~Usable(inp.cur) /\ ~Usable(inp.fc) /\ ~Usable(inp.oc)

\* the two clients of a fetch both failed: each returned None or raised
BothClientsFailed(inp) ==
  /\ inp.aqEscape \/ ~Usable(inp.aq)
  /\ inp.wEscape \/ inp.wInternal

\* the run of slot 1 has returned and its local write went through
SavedLocally == run[1].pc = "done" /\ run[1].local = "written"

\* C3 as stated: after a run in which the air-quality request and every
\* weather sub-request failed and the local write went through,
\* get_latest_data returns a document with both records null and the three
\* flags false.
C3_AllRequestsFailedBothNull ==
  (SavedLocally /\ AllRequestsFailed(run[1].inp)) =>
    BothNull(storage_get_latest_data(latest_file).val)

\* C3: after a run in which both clients failed (each returned None or
\* raised) and the local write went through, get_latest_data returns a
\* document with both records null and the three flags false; when only the
\* weather sub-requests failed, the weather record is the shell without
\* sub-blocks and weather_success and overall_success are true.
C3_BothClientsFailed ==
  SavedLocally =>
    LET inp == run[1].inp
        latest == storage_get_latest_data(latest_file)
        weather == Get(latest.val, "weather")
    IN /\ ~latest.raised
       /\ Get(run[1].results, "local_json") = PyBool(TRUE)
       /\ BothClientsFailed(inp) => BothNull(latest.val)
       /\ (AllRequestsFailed(inp) /\ ~inp.wInternal) =>
            /\ Get(latest.val, "air_quality") = PyNone
            /\ IsDict(weather)
            /\ ~HasKey(weather, "current")
            /\ ~HasKey(weather, "forecast")
            /\ ~HasKey(weather, "detailed")
            /\ Flag(latest.val, "air_quality_success") = PyBool(FALSE)
            /\ Flag(latest.val, "weather_success") = PyBool(TRUE)
            /\ Flag(latest.val, "overall_success") = PyBool(TRUE)

\* the air-quality request timed out and the weather client failed as a
\* whole; the document was saved and reads back with both records null
C3_Witness ==
  /\ SavedLocally
  /\ run[1].inp.aq = Timeout /\ run[1].inp.wInternal
  /\ latest_file.exists
  /\ BothNull(storage_get_latest_data(latest_file).val)

\* the record collect_all_data holds for a client's outcome
RecordOf(outcome) == IF outcome.raised THEN PyNone ELSE outcome.val

\* C4: whatever the two clients return or raise, run does not raise: it
\* builds one document, passes it to save_data exactly once and returns it;
\* the fetch outcomes only decide the two records and the status flags.
C4_RunNeverRaisesFromFetch ==
  /\ run[1].save_calls <= 1
  /\ run[1].pc \in {"save", "done"} =>
       LET data == run[1].data
           inp == run[1].inp
           aq == RecordOf(AirQualityCall(inp, 0))
           w == RecordOf(WeatherCall(inp, 0))
       IN /\ run[1].save_calls = 1
          /\ run[1].saved = data
          /\ data = PyDict(<<
               <<"timestamp", PyTime(0)>>,
               <<"location", PyDict(<< <<"latitude", PyNum(DefaultLatitude)>>,
                                       <<"longitude", PyNum(DefaultLongitude)>>,
                                       <<"source", PyStr("default_config")>> >>)>>,
               <<"air_quality", aq>>,
               <<"weather", w>>,
               <<"collection_status", PyDict(<<
                   <<"air_quality_success", PyBool(aq # PyNone)>>,
                   <<"weather_success", PyBool(w # PyNone)>>,
                   <<"overall_success", PyBool(aq # PyNone \/ w # PyNone)>> >>)>> >>)
          /\ (inp.aqEscape \/ ~Usable(inp.aq)) => aq = PyNone
          /\ (inp.wEscape \/ inp.wInternal) => w = PyNone
  /\ run[1].pc = "done" => ~run[1].ret.raised /\ run[1].ret.val = run[1].data

\* exceptions surfaced from both clients; run returned the document it saved
C4_Witness ==
  /\ run[1].pc = "done"
  /\ run[1].inp.aqEscape /\ run[1].inp.wEscape
  /\ ~run[1].ret.raised
  /\ run[1].ret.val = run[1].saved
  /\ run[1].save_calls = 1
  /\ Flag(run[1].ret.val, "overall_success") = PyBool(FALSE)

\* the sinks of the configuration
Configured(m) == InList(m, storage_methods)

\* C5 as stated: the map save_data returns holds, for every configured sink,
\* true exactly when that sink's write succeeded, and names no other sink.
C5_MapReportsOutcome ==
  run[1].pc = "done" =>
    \A m \in SinkNames :
      IF Configured(m) THEN Get(run[1].results, m) = run[1].taskres[m]
      ELSE ~HasKey(run[1].results, m)

\* C6: in a call of save_data every configured sink attempts its write
\* exactly once whatever happened to the other sinks, save_data returns only
\* when all of them have finished, and it returns a map without raising.
C6_EverySinkAttemptedOnce ==
  /\ \A m \in SinkNames : run[1].attempts[m] <= 1
  /\ run[1].pc = "save" =>
       /\ (Configured("local_json") /\ "local_json" \notin run[1].finished)
            => ENABLED LocalStep(1)
       /\ (Configured("postgresql") /\ "postgresql" \notin run[1].finished)
            => ENABLED (\E out \in PostgresOutcomes : SavePostgresql(1, out))
       /\ (Configured("webhook") /\ "webhook" \notin run[1].finished)
            => ENABLED (\E out \in SinkHttpOutcomes : SendWebhook(1, out))
       /\ (Configured("custom_api") /\ "custom_api" \notin run[1].finished)
            => ENABLED (\E out \in SinkHttpOutcomes : SendCustomApi(1, out))
       /\ (ENABLED RunReturn(1)) <=> (run[1].finished = Range(storage_methods))
  /\ run[1].pc = "done" =>
       /\ run[1].finished = Range(storage_methods)
       /\ \A m \in SinkNames : run[1].attempts[m] = IF Configured(m) THEN 1 ELSE 0
       /\ IsDict(run[1].results)
       /\ ~run[1].ret.raised

\* the database and the webhook failed, the custom API and the local file were
\* written: each sink was tried once
C6_Witness ==
  /\ run[1].pc = "done"
  /\ Len(storage_methods) = 4
  /\ run[1].taskres["postgresql"] = PyBool(FALSE)
  /\ run[1].taskres["webhook"] = PyBool(FALSE)
  /\ run[1].taskres["custom_api"] = PyBool(TRUE)
  /\ run[1].local = "written"
  /\ \A m \in SinkNames : run[1].attempts[m] = 1

\* C7 as stated: when the local write cannot be performed, run raises, and in
\* collect mode the process exits with a non-zero status.
C7_LocalFailureFatal ==
  (run[1].pc = "done" /\ run[1].local = "failed") =>
    /\ run[1].ret.raised
    /\ run[1].mode = "collect" => run[1].exit # 0

\* C8 as stated: at every instant the latest file either does not exist or
\* holds one complete document, and a reader that finds the file reads a
\* document from it.
C8_LatestNeverPartial ==
  /\ latest_file.exists =>
       Loads(latest_file.text).ok /\ IsDict(Loads(latest_file.text).val)
  /\ (resp.op = "get_latest_data" /\ latest_file.exists) => IsDict(resp.out.val)

\* C9: when the last run has returned and its local write went through,
\* get_latest_data returns, without raising, a document equal to the one that
\* run returned, which is the one it collected.
C9_LatestRoundTrip ==
  (resp.op = "get_latest_data" /\ SavedLocally) =>
    /\ resp.out = Return(run[1].ret.val)
    /\ run[1].ret.val = run[1].data

\* a second run, one second after an earlier one, returned a document with
\* both records; the reader gets that document
C9_Witness ==
  /\ resp.op = "get_latest_data"
  /\ SavedLocally
  /\ run_files[0].exists /\ run_files[1].exists /\ run[1].sec = 1
  /\ resp.out.val = run[1].ret.val
  /\ Get(resp.out.val, "timestamp") = PyTime(1)
  /\ IsDict(Get(resp.out.val, "air_quality"))
  /\ HasKey(Get(resp.out.val, "weather"), "forecast")

\* a reader takes its step
ReaderStep == resp = NoResp /\ resp' # NoResp

\* C10: as long as the latest file has never been written, get_latest_data
\* returns None without raising, GET /latest of both servers answers 404, and
\* the step of the reader leaves every file as it was.
C10_NothingSavedYet ==
  [][(ReaderStep /\ ~latest_file.exists) =>
       /\ UNCHANGED <<latest_file, run_files>>
       /\ resp'.op = "get_latest_data" => resp'.out = Return(PyNone)
       /\ resp'.op \in {"main_latest", "health_latest"} => resp'.http.status = 404]_vars

\* GET /latest of src/main.py answered 404 while the first run had written its
\* per-run file but not yet the latest file
C10_Witness ==
  /\ resp.op = "main_latest"
  /\ resp.http.status = 404
  /\ ~latest_file.exists
  /\ run[1].local = "run_closed"
  /\ run_files[0].exists

\* the latest file holds one complete document
LatestIsDocument == latest_file.exists /\ IsDict(Loads(latest_file.text).val)

\* the keys of a dict, in order
Keys(d) == [i \in 1..Len(d.v) |-> d.v[i][1]]

\* C13 as stated: whenever the latest file holds a document written by a run,
\* whatever records of it are null, GET /latest of either server answers 200
\* with the summary projection, which holds no upstream payload.
C13_LatestAlwaysSummary ==
  (resp.op \in {"main_latest", "health_latest"} /\ LatestIsDocument) =>
    /\ resp.http.status = 200
    /\ IsDict(resp.http.body)
    /\ Keys(resp.http.body)[1] = "timestamp"
    /\ Keys(resp.http.body)[2] = "location"
    /\ Keys(resp.http.body)[3] = "collection_status"
    /\ ~HasKey(resp.http.body, "air_quality")
    /\ ~HasKey(resp.http.body, "weather")

\* the fetch of the end-to-end scenario: the default coordinate, the
\* air-quality body and the current-conditions body of the example
ScenarioFetch(inp) ==
  /\ IsNone(inp.lat) /\ IsNone(inp.lon)
  /\ ~inp.aqEscape /\ ~inp.wEscape /\ ~inp.wInternal
  /\ inp.aq = Response(200, AQExample)
  /\ inp.cur = Response(200, CurrentExample)

\* C14 as stated: in the end-to-end scenario the document has
\* air_quality.indexes[0].aqi = 42, weather.current.temperature = 22 and the
\* three flags true.
C14_EndToEnd ==
  (probe.phase = "out" /\ ScenarioFetch(probe.inp)) =>
    LET data == probe.data
        first == Get(Get(data, "air_quality"), "indexes").v[1]
        current == Get(Get(data, "weather"), "current")
    IN /\ Get(Get(data, "location"), "latitude") = PyNum(DefaultLatitude)
       /\ Get(Get(data, "location"), "longitude") = PyNum(DefaultLongitude)
       /\ Get(first, "aqi") = PyNum(42)
       /\ HasKey(current, "temperature")
       /\ Get(current, "temperature") = PyNum(22)
       /\ Flag(data, "air_quality_success") = PyBool(TRUE)
       /\ Flag(data, "weather_success") = PyBool(TRUE)
       /\ Flag(data, "overall_success") = PyBool(TRUE)

\* C16 as stated: location.source is "user_provided" exactly when the stored
\* latitude and longitude are the supplied arguments, and "default_config"
\* exactly when they are the configured defaults.
C16_ProvenanceTag ==
  probe.phase = "out" =>
    LET location == Get(probe.data, "location")
        source == Get(location, "source")
        supplied == /\ Get(location, "latitude") = probe.inp.lat
                    /\ Get(location, "longitude") = probe.inp.lon
        defaults == /\ Get(location, "latitude") = PyNum(DefaultLatitude)
                    /\ Get(location, "longitude") = PyNum(DefaultLongitude)
    IN /\ source \in {PyStr("user_provided"), PyStr("default_config")}
       /\ (source = PyStr("user_provided")) <=> supplied
       /\ (source = PyStr("default_config")) <=> defaults

\* the per-run file of second s is being written by the run in flight
BeingWritten(s) ==
  /\ run[1].pc = "save"
  /\ run[1].sec = s
  /\ run[1].local \in {"run_open", "run_written"}

\* C17 as stated: a per-run file, once a run has written it, is never changed
\* again by a later run.
C17_PerRunFileImmutable ==
  [][\A s \in Seconds :
       (run_files[s].exists /\ ~BeingWritten(s)) => run_files'[s] = run_files[s]]_vars

InRange(task) ==
  /\ Degrees(0 - 90) <= task.lat.v /\ task.lat.v <= Degrees(90)
  /\ Degrees(0 - 180) <= task.lon.v /\ task.lon.v <= Degrees(180)

\* a step in which the handler of POST /collect/location answers
LocationRequest == resp.op = "none" /\ resp'.op = "collect_location"

\* C11 as stated: POST /collect/location with a latitude outside [-90, 90] or
\* a longitude outside [-180, 180] answers 400, schedules no run and
\* constructs no orchestrator; with both values in range it schedules
\* exactly one run, for exactly those coordinates.
C11_LocationValidation ==
  [][LocationRequest =>
       IF InRange(resp'.req)
       THEN background_tasks' = Append(background_tasks, resp'.req)
       ELSE /\ resp'.http.status = 400
            /\ UNCHANGED <<background_tasks, orchestrator_instance, run>>]_vars

\* C12 as stated: GET /health answers 503 whenever a required variable is
\* absent, and 200 with status "degraded" when the required variables are
\* all set and only the document store is unreachable.
C12_Health ==
  resp.op \in {"main_health", "health_health"} =>
    IF RequiredVars \subseteq environ
    THEN ~FirebaseReady(get_firebase_status) =>
           /\ resp.http.status = 200
           /\ IsDict(resp.http.body)
           /\ Get(resp.http.body, "status") = PyStr("degraded")
    ELSE resp.http.status = 503

\* a step in which POST /collect or POST /collect/location accepts a request
Accepted ==
  /\ resp.op = "none"
  /\ resp'.op \in {"collect", "collect_location"}
  /\ resp'.http.status = 200

\* C19: a step that accepts a POST /collect or POST /collect/location adds
\* exactly one task, for the request's coordinates, and starts or advances
\* no run; while the response is not yet sent the task is still waiting; and
\* a background run that is over, whatever run returned or raised, has left
\* no exception in its task and the server is still serving.
C19_FireAndForget ==
  [][/\ Accepted => /\ background_tasks' = Append(background_tasks, resp'.req)
                    /\ run' = run
     /\ (resp'.op \in {"collect", "collect_location"} /\ resp'.http.status = 200)
          => /\ background_tasks' # <<>>
             /\ background_tasks'[Len(background_tasks')] = resp'.req
     /\ \A t \in Tasks :
          (run'[t].pc = "done" /\ run'[t].mode = "server")
            => (~run'[t].task.raised /\ process' = "serving")]_vars

\* a background run whose run() raised is over and the server still serves
C19_Witness ==
  \E t \in Tasks :
    /\ run[t].pc = "done" /\ run[t].mode = "server"
    /\ run[t].ret.raised
    /\ ~run[t].task.raised
    /\ process = "serving"
    /\ orchestrator_instance # PyNone

\* C20 as stated: when a required variable is absent the process fails at its
\* start in both modes: it never serves or collects, no run starts and no
\* upstream request is issued.
C20_FatalAtStart ==
  ~(RequiredVars \subseteq environ) =>
    /\ process \in {"start", "exited"}
    /\ \A t \in Tasks : run[t].pc = "idle" /\ run[t].inp = NoInp

\* the documents the client has written so far
Written ==
  {db.weather_data[s] : s \in {x \in Seconds : db.weather_data[x] # PyNone}}
    \cup (IF db.latest_weather # PyNone THEN {db.latest_weather} ELSE {})

C18_DocumentSinkMirrorsLocal ==
  \A t \in Tasks :
    (run[t].pc = "done" /\ ~run[t].ret.raised /\ db.ready
       /\ run[t].taskres["local_json"] = PyBool(TRUE)) =>
      /\ db.weather_data[run[t].sec] = _prepare_firestore_data(run[t].saved)
      /\ db.latest_weather = _prepare_firestore_data(Loads(latest_file.text).val)

\* what a client coroutine hands to the join: its value, or None in place of
\* its exception
Joined(outcome) == IF outcome.raised THEN PyNone ELSE outcome.val

ParseRaises(inp) ==
  /\ inp.aq.kind = "resp" /\ inp.aq.status = 200
  /\ HasKey(_process_air_quality_response(inp.aq.body, now), "error")

\* C22 as stated: when the processing of a 200 air-quality response raises,
\* get_air_quality_data returns its failure value, so the document has
\* air_quality null and air_quality_success false.
C22_ParseFailureIsFailure ==
  (probe.phase = "out" /\ ~probe.inp.aqEscape /\ ParseRaises(probe.inp)) =>
    /\ IsNone(Get(probe.data, "air_quality"))
    /\ Flag(probe.data, "air_quality_success") = PyBool(FALSE)

\* the request of the air-quality client ends without a 200 response
Unavailable(out) == ~(out.kind = "resp" /\ out.status = 200)

\* C23: whatever way the air-quality request fails (a status other than 200, a
\* timeout, a transport error) get_air_quality_data returns None, the same
\* value each time, and the document records air_quality_success false.
C23_UniformFailure ==
  (probe.phase = "out" /\ ~probe.inp.aqEscape /\ Unavailable(probe.inp.aq)) =>
    /\ AirQualityCall(probe.inp, now) = Return(PyNone)
    /\ IsNone(Get(probe.data, "air_quality"))
    /\ Flag(probe.data, "air_quality_success") = PyBool(FALSE)

\* the air-quality request timed out and the weather was collected
C23_Witness ==
  /\ probe.phase = "out"
  /\ ~probe.inp.aqEscape
  /\ probe.inp.aq = Timeout
  /\ IsNone(Get(probe.data, "air_quality"))
  /\ Flag(probe.data, "air_quality_success") = PyBool(FALSE)
  /\ Flag(probe.data, "weather_success") = PyBool(TRUE)

\* block k of the weather record is the marker of a body whose required
\* fields are absent
MarkerWithPayload(weather, k, body) ==
  /\ HasKey(weather, k)
  /\ HasKey(Get(weather, k), "error")
  /\ HasKey(Get(weather, k), "raw_data")
  /\ Get(Get(weather, k), "raw_data") = body

\* C24 as stated: a sub-resource that answers 200 without its required fields
\* yields, for its sub-block, a marker with an error field and a raw_data
\* field holding the payload, and the other sub-blocks are as they would
\* have been.
C24_MarkerPerBlock ==
  (probe.phase = "out" /\ ~probe.inp.wInternal /\ ~probe.inp.wEscape) =>
    LET inp == probe.inp
        weather == Get(probe.data, "weather")
    IN /\ inp.cur = Response(200, CurrentExample) =>
            /\ MarkerWithPayload(weather, "current", CurrentExample)
            /\ BlockAsFetched(weather, "forecast", inp.fc,
                              _process_forecast_weather(inp.fc.body))
            /\ BlockAsFetched(weather, "detailed", inp.oc,
                              _process_onecall_weather(inp.oc.body))
       /\ inp.fc = Response(200, ForecastNoCity) =>
            MarkerWithPayload(weather, "forecast", ForecastNoCity)
       /\ inp.oc = Response(200, OneCallEmpty) =>
            MarkerWithPayload(weather, "detailed", OneCallEmpty)

\* the air-quality record of the collected document has at least one index
HasIndexes(air) ==
  /\ IsDict(air) /\ HasKey(air, "indexes")
  /\ Get(air, "indexes").t = "list" /\ Len(Get(air, "indexes").v) > 0

\* C26 as stated: when the air-quality record of a saved document has a
\* non-empty indexes sequence, overall_aqi and overall_category of the latest
\* projection are the aqi and category of indexes[0], whatever the aqi of that
\* first entry, and _extract_aqi and _extract_air_quality_level return the
\* same two values.
C26_FirstIndexCanonical ==
  LET air == Get(probe.data, "air_quality") IN
  (~IsNone(db.latest_weather) /\ HasIndexes(air)) =>
    LET first == Get(air, "indexes").v[1]
        shown == Get(db.latest_weather, "air_quality")
    IN /\ Get(shown, "overall_aqi") = GetNone(first, "aqi")
       /\ Get(shown, "overall_category") = GetNone(first, "category")
       /\ _extract_aqi(air) = Get(shown, "overall_aqi")
       /\ _extract_air_quality_level(air) = Get(shown, "overall_category")

\* the forecast entries of the weather record of the collected document
RecordForecasts ==
  LET weather == Get(probe.data, "weather")
      forecast == IF IsDict(weather) THEN GetNone(weather, "forecast") ELSE PyNone
  IN IF IsDict(forecast) /\ HasKey(forecast, "forecasts")
     THEN Get(forecast, "forecasts").v ELSE <<>>

\* C27 as stated: forecast_24h of the latest projection holds the first
\* min(8, n) forecast entries of the record in order, and when it is not
\* empty temp_min and temp_max of forecast_summary are the least and the
\* greatest temperature over all its entries, 0 and negative values included.
C27_ForecastSummary ==
  (~IsNone(db.latest_weather) /\ IsDict(Get(probe.data, "weather"))) =>
    LET shown == Get(db.latest_weather, "weather")
        forecast_24h == Get(shown, "forecast_24h").v
        n == Len(RecordForecasts)
        temps == {Get(forecast_24h[i], "temperature").v : i \in 1..Len(forecast_24h)}
    IN /\ Len(forecast_24h) = (IF n < 8 THEN n ELSE 8)
       /\ \A i \in 1..Len(forecast_24h) :
            /\ Get(forecast_24h[i], "datetime") = GetNone(RecordForecasts[i], "datetime")
            /\ Get(forecast_24h[i], "temperature") =
                 GetNone(RecordForecasts[i], "temperature")
       /\ forecast_24h # <<>> =>
            /\ IsDict(Get(shown, "forecast_summary"))
            /\ Get(Get(shown, "forecast_summary"), "temp_min").v \in temps
            /\ Get(Get(shown, "forecast_summary"), "temp_max").v \in temps
            /\ \A x \in temps :
                 /\ Get(Get(shown, "forecast_summary"), "temp_min").v <= x
                 /\ Get(Get(shown, "forecast_summary"), "temp_max").v >= x

\* no save is in progress
NoSaveInProgress == \A t \in Tasks : run[t].pc # "save"

\* some per-run file holds what the latest file holds
LatestHasPerRunFile == \E s \in Seconds : run_files[s] = latest_file

\* the latest file changes only in a save whose per-run file is written
PointerAfterPerRunFile ==
  latest_file' # latest_file =>
    \E t \in Tasks : /\ run[t].pc = "save"
                     /\ run_files[run[t].sec] = FileOf(Dumps(run[t].saved))

\* a save whose per-run file cannot be written leaves the latest file alone
PerRunFailureKeepsLatest ==
  \A t \in Tasks :
    (run[t].local = "start" /\ run'[t].local = "failed") => latest_file' = latest_file

\* C29 as stated: the per-run file is written before the latest file, which
\* is written only if the per-run write went through; between saves that do
\* not overlap, whenever the latest file holds a document some per-run file
\* holds the same document; a save whose per-run write fails leaves the
\* latest file unchanged.
C29_LatestBackedByPerRunFile ==
  [][/\ PointerAfterPerRunFile
     /\ PerRunFailureKeepsLatest
     /\ (NoSaveInProgress /\ latest_file.exists) => LatestHasPerRunFile]_vars

\* both runs have returned and each wrote the two local files
BothSaved == \A t \in OverlapTasks : run[t].pc = "done" /\ run[t].local = "written"

\* C28 as stated: when two runs overlap in one process, once both saves have
\* completed the latest file holds one of the two documents in full, neither
\* truncated nor a mixture of the two.
C28_OverlapKeepsOneDocument ==
  BothSaved => \E t \in OverlapTasks : latest_file = FileOf(Dumps(run[t].saved))

\* a step in which a handler that reached get_orchestrator answers
OrchestratorRequest ==
  /\ resp.op = "none"
  /\ resp'.op \in {"collect", "collect_location", "status"}
  /\ resp'.http.status # 400

\* C30: get_orchestrator is a lazy singleton.  Over the requests of a server
\* at most one orchestrator is constructed; once the global is set no step
\* replaces it or constructs another; a call that finds the global unset
\* attempts the construction, and when the construction raises the global
\* stays unset and the handler reports the failure, so that the next call
\* attempts it again.
C30_LazySingleton ==
  [][/\ constructed = (IF IsNone(orchestrator_instance) THEN 0 ELSE 1)
     /\ ~IsNone(orchestrator_instance) =>
          /\ orchestrator_instance' = orchestrator_instance
          /\ constructed' = constructed
     /\ (IsNone(orchestrator_instance) /\ OrchestratorRequest) =>
          IF DataCollectionOrchestrator(environ).raised
          THEN /\ IsNone(orchestrator_instance')
               /\ constructed' = 0
               /\ resp'.http.status \in {500, 503}
          ELSE /\ orchestrator_instance' = DataCollectionOrchestrator(environ).val
               /\ constructed' = 1
               /\ resp'.http.status = 200]_vars

\* POST /collect constructed the orchestrator and queued its task; GET /status
\* then got the same instance without constructing another
C30_Witness ==
  /\ resp.op = "status" /\ resp.http.status = 200
  /\ background_tasks = <<Task(PyNone, PyNone)>>
  /\ ~IsNone(orchestrator_instance)
  /\ constructed = 1

\* the sessions call c made
SessionsOf(c) == {session \in sessions : session.owner = c}

\* every call of the cycle is over
CycleOver == \A c \in Calls : calls[c].pc = "done"

\* C25: every session belongs to the one call that opened it, a call opens
\* one session and no call uses the session of another; a session is open
\* only while its call is inside its block, whichever way the request ended,
\* so once the cycle is over no session is open.
C25_SessionsScopedAndClosed ==
  /\ \A c \in Calls :
       /\ Cardinality(SessionsOf(c)) = (IF calls[c].pc = "idle" THEN 0 ELSE 1)
       /\ \A session \in SessionsOf(c) :
            session.open <=> calls[c].pc \in {"request", "leaving"}
  /\ \A session \in sessions : session.owner \in Calls
  /\ CycleOver => \A session \in sessions : ~session.open

\* a cycle is over in which the requests ended in each of the four ways, and
\* its six sessions are closed
C25_Witness ==
  /\ CycleOver
  /\ calls["air_quality"].out = Timeout
  /\ calls["current"].out = Response(200, PyNone)
  /\ calls["forecast"].out = Response(500, PyNone)
  /\ calls["detailed"].out = NetError
  /\ calls["webhook"].out = NetError
  /\ calls["custom_api"].out = Response(200, PyNone)
  /\ Cardinality(sessions) = 6
  /\ \A session \in sessions : ~session.open

====
